---------------------------- MODULE Spec2Model ----------------------------
(***************************************************************************)
(* State-machine model of the concentrated-liquidity pool of clmm-rust:     *)
(* the swap engine (src/math/swap.rs), the MEV gate                          *)
(* (src/math/mev_protection.rs), the dynamic fee engine                      *)
(* (src/math/dynamic_fee.rs), the tick and fixed-point arithmetic            *)
(* (src/math/tick_math.rs, src/math/fixed_point.rs) and the liquidity        *)
(* processors (src/processor/*.rs).                                          *)
(*                                                                           *)
(* Word sizes.  The source computes on 256-bit words.  The model keeps the   *)
(* algorithms and shrinks every word by the factor 16: a U256 has 16 bits,   *)
(* a u128 8 bits, a u64 4 bits, Q96 is 2^6 and the Q128 fixed point of the   *)
(* tick table is 2^8.  Every constant of the arithmetic is the source's      *)
(* constant at that width (a 128-bit literal keeps its top 8 bits).  Tick    *)
(* indices, basis points and timestamps keep their real values.              *)
(*                                                                           *)
(* Arithmetic.  U256 is a construct_uint! word (tick_math.rs:6-8): its +,   *)
(* - and * panic when the result leaves the word, << drops the bits shifted  *)
(* out, and a division by zero panics.  A panic aborts the call: status      *)
(* "Panic".  I256 (tick_math.rs:11-13) is the same kind of word used for     *)
(* signed quantities; the model reads it as two's complement: arithmetic    *)
(* modulo the word, negative when the top bit is set (tick.rs:73-99,         *)
(* remove_liquidity.rs:328).  The logarithm of get_tick_at_sqrt_ratio        *)
(* (tick_math.rs:144-150) subtracts modulo the word and shifts logically.    *)
(* Q96 is the documented 2^96; the limb literal of tick_math.rs:17 is read   *)
(* as that value.                                                            *)
(*                                                                           *)
(* Calls.  A processor runs inside a transaction: when it fails, nothing it  *)
(* wrote is kept.  SwapEngine::execute_swap is called on the caller's pool   *)
(* and buffers (&mut): what it has written when it returns an error stays.   *)
(***************************************************************************)
EXTENDS Integers, Sequences, FiniteSets, TLC

\* ------------------------------------------------------------------------
\* Word sizes and constants of the arithmetic
\* ------------------------------------------------------------------------
U256_MOD == 65536
U128_MOD == 256
U64_MOD == 16
U256_MAX == 65535
Q96 == 64
SHIFT_96 == 64
SHIFT_64 == 16
MIN_TICK == -887272
MAX_TICK == 887272
MIN_SQRT_RATIO == 4
MAX_SQRT_RATIO == 1024
I32_MAX == 127
MSB_BIAS == 4

\* Results of fallible functions: err = "Ok" carries the value v
Ok(v) == [err |-> "Ok", v |-> v]
Err(e) == [err |-> e, v |-> 0]
IsOk(r) == r.err = "Ok"

Min(a, b) == IF a < b THEN a ELSE b
Max(a, b) == IF a > b THEN a ELSE b

RECURSIVE Pow2(_)
Pow2(n) == IF n = 0 THEN 1 ELSE 2 * Pow2(n - 1)

\* I256 arithmetic: two's complement, modulo the word
I256Add(a, b) == (a + b) % U256_MOD
I256Sub(a, b) == (a - b + U256_MOD) % U256_MOD
\* a << k with m = 2^k: the bits shifted out of the word are dropped
U256Shl(a, m) ==
    (a * (m % U128_MOD) + ((a * (m \div U128_MOD)) % U256_MOD) * U128_MOD) % U256_MOD
\* the U256 operators + - * panic exactly when these hold
AddOverflows(a, b) == a + b > U256_MAX
SubOverflows(a, b) == b > a
MulOverflows(a, b) == a # 0 /\ b > U256_MAX \div a
low_u64(a) == a % U64_MOD
low_u128(a) == a % U128_MOD
saturating_add(a, b) == Min(a + b, U256_MAX)

\* a faulty rounding that goes two units above the quotient
div_rounding_up_by_two(numerator, denominator) == numerator \div denominator + 2

\* ------------------------------------------------------------------------
\* src/math/fixed_point.rs
\* ------------------------------------------------------------------------
div_rounding_up(numerator, denominator) ==
    LET quotient == numerator \div denominator
        remainder == numerator % denominator
    IN  IF remainder = 0 THEN quotient ELSE quotient + 1

get_amount0_delta(sqrt_price_a, sqrt_price_b, liquidity, round_up) ==
    LET sqrt_price_start == Min(sqrt_price_a, sqrt_price_b)
        sqrt_price_end == Max(sqrt_price_a, sqrt_price_b)
        numerator1 == U256Shl(liquidity, SHIFT_96)
        numerator2 == sqrt_price_end - sqrt_price_start
        num == numerator1 * numerator2
        den == sqrt_price_end * sqrt_price_start
    IN  IF MulOverflows(numerator1, numerator2) THEN Err("Panic")
        ELSE IF MulOverflows(sqrt_price_end, sqrt_price_start) THEN Err("Panic")
        ELSE IF den = 0 THEN Err("Panic")
        ELSE LET amount0 == div_rounding_up(num, den)
             IN  IF round_up /\ num % den # 0
                 THEN IF AddOverflows(amount0, 1) THEN Err("Panic")
                      ELSE Ok(amount0 + 1)
                 ELSE Ok(amount0)

get_amount1_delta(sqrt_price_a, sqrt_price_b, liquidity, round_up) ==
    LET sqrt_price_start == Min(sqrt_price_a, sqrt_price_b)
        sqrt_price_end == Max(sqrt_price_a, sqrt_price_b)
        numerator == liquidity * (sqrt_price_end - sqrt_price_start)
    IN  IF MulOverflows(liquidity, sqrt_price_end - sqrt_price_start)
        THEN Err("Panic")
        ELSE IF round_up THEN Ok(div_rounding_up(numerator, Q96))
        ELSE Ok(numerator \div Q96)

\* ------------------------------------------------------------------------
\* src/math/tick_math.rs
\* ------------------------------------------------------------------------
\* tick & 2^b # 0 on the i32 two's-complement tick
TickBit(tick, b) ==
    IF tick >= 0 THEN (tick \div Pow2(b)) % 2 = 1
    ELSE ((-tick - 1) \div Pow2(b)) % 2 = 0

RATIO_EVEN == 255
RATIO_ODD == 255
\* multipliers of the bit tests 0x02 .. 0x40000, in source order
TickFactors ==
    << 255, 255, 255, 255, 255, 254, 252, 249, 243,
       14, 208, 169, 112, 49, 9, 0, 0, 0 >>

RECURSIVE ApplyTickFactors(_, _, _)
ApplyTickFactors(ratio, tick, b) ==
    IF b > Len(TickFactors) THEN ratio
    ELSE ApplyTickFactors(
            IF TickBit(tick, b)
            THEN (ratio * TickFactors[b]) \div U128_MOD
            ELSE ratio,
            tick, b + 1)

get_sqrt_ratio_at_tick(tick) ==
    IF tick < MIN_TICK \/ tick > MAX_TICK THEN Err("InvalidTickRange")
    ELSE LET start == IF tick % 2 = 0 THEN RATIO_EVEN ELSE RATIO_ODD
             ratio == ApplyTickFactors(start, tick, 1)
         IN  IF tick > 0
             THEN IF ratio = 0 THEN Err("Panic") ELSE Ok(U256_MAX \div ratio)
             ELSE Ok(ratio)

\* the binary search for the most significant bit, one probe per word half
MostSignificantBit(ratio) ==
    LET f7 == IF ratio > SHIFT_96 - 1 THEN 8 ELSE 0
        r7 == ratio \div Pow2(f7)
        f6 == IF r7 > SHIFT_64 - 1 THEN 4 ELSE 0
        r6 == r7 \div Pow2(f6)
        f5 == IF r6 > 3 THEN 2 ELSE 0
        r5 == r6 \div Pow2(f5)
        f4 == IF r5 > 1 THEN 1 ELSE 0
    IN  f7 + f6 + f5 + f4

\* tick_low.to::<i32>().unwrap_or(0)
ToI32OrZero(v) == IF v <= I32_MAX THEN v ELSE 0

get_tick_at_sqrt_ratio(sqrt_price_x96) ==
    IF sqrt_price_x96 < MIN_SQRT_RATIO \/ sqrt_price_x96 >= MAX_SQRT_RATIO
    THEN Err("InvalidPrice")
    ELSE LET msb == MostSignificantBit(sqrt_price_x96)
             log_2 == U256Shl(I256Sub(msb, MSB_BIAS), SHIFT_64)
             tick_low == I256Sub(log_2, U128_MOD) \div U128_MOD
             tick_high == I256Add(log_2, U128_MOD) \div U128_MOD
             at_low == get_sqrt_ratio_at_tick(ToI32OrZero(tick_low))
         IN  IF tick_low = tick_high THEN Ok(ToI32OrZero(tick_low))
             ELSE IF ~IsOk(at_low) THEN at_low
             ELSE IF at_low.v <= sqrt_price_x96 THEN Ok(ToI32OrZero(tick_low))
             ELSE Ok(ToI32OrZero(tick_high))

\* TickMath::TickMath_mul_div: the product of the low u64 halves; the denominator
\* only decides the error
TickMath_mul_div(a, b, denominator) ==
    IF denominator = 0 THEN Err("MathOverflow")
    ELSE Ok((low_u64(a) * low_u64(b)) % U64_MOD)

TickMath_mul_div_rounding_up(a, b, denominator) ==
    LET result == TickMath_mul_div(a, b, denominator)
    IN  IF ~IsOk(result) THEN result
        ELSE IF MulOverflows(a, b) THEN Err("Panic")
        ELSE IF (a * b) % denominator # 0 THEN Ok(result.v + 1)
        ELSE result

get_next_sqrt_price_from_amount0_rounding_up(sqrt_px96, liquidity, amount, add) ==
    IF liquidity = 0 THEN Err("InsufficientLiquidity")
    ELSE LET numerator1 == U256Shl(liquidity, SHIFT_96)
             q == TickMath_mul_div_rounding_up(amount, Q96, sqrt_px96)
         IN  IF ~IsOk(q) THEN q
             ELSE IF add
             THEN IF liquidity + q.v > U256_MAX \/ liquidity + q.v = liquidity
                  THEN Err("MathOverflow")
                  ELSE TickMath_mul_div_rounding_up(numerator1, sqrt_px96, liquidity + q.v)
             ELSE IF q.v > liquidity THEN Err("InsufficientLiquidity")
             ELSE IF MulOverflows(numerator1, sqrt_px96) THEN Err("Panic")
             ELSE IF liquidity - q.v = 0 THEN Err("Panic")
             ELSE Ok((numerator1 * sqrt_px96) \div (liquidity - q.v))

get_next_sqrt_price_from_amount1_rounding_down(sqrt_px96, liquidity, amount, add) ==
    IF sqrt_px96 = 0 THEN Err("Panic")
    ELSE LET quotient == U256Shl(amount, SHIFT_96) \div sqrt_px96
         IN  IF add
             THEN IF liquidity + quotient > U256_MAX THEN Err("MathOverflow")
                  ELSE IF MulOverflows(liquidity + quotient, sqrt_px96)
                  THEN Err("Panic")
                  ELSE Ok(((liquidity + quotient) * sqrt_px96) \div Q96)
             ELSE IF quotient > liquidity THEN Err("InsufficientLiquidity")
             ELSE IF MulOverflows(liquidity - quotient, sqrt_px96)
             THEN Err("Panic")
             ELSE Ok(((liquidity - quotient) * sqrt_px96) \div Q96)

\* ------------------------------------------------------------------------
\* src/state/pool.rs
\* ------------------------------------------------------------------------
POOL_MIN_FEE == 1
POOL_MAX_FEE == 100
FEE_ADJUSTMENT_INTERVAL == 3600

\* MevProtectionEngine::default_config
default_config ==
    [oracle_window |-> 300, min_update_interval |-> 60,
     max_slippage_bps |-> 1000, batch_auction_enabled |-> TRUE,
     batch_window |-> 30, oracle_enabled |-> TRUE]

\* Pool::new; the result is Err when the initial price has no tick
PoolNew(token_a, token_b, fee, tick_spacing, initial_sqrt_price_x96) ==
    LET initial_tick == get_tick_at_sqrt_ratio(initial_sqrt_price_x96)
    IN  IF ~IsOk(initial_tick) THEN Err("Invalid initial sqrt price")
        ELSE Ok([token_a |-> IF token_a < token_b THEN token_a ELSE token_b,
                 token_b |-> IF token_a < token_b THEN token_b ELSE token_a,
                 fee |-> fee,
                 tick_spacing |-> tick_spacing,
                 sqrt_price_x96 |-> initial_sqrt_price_x96,
                 tick |-> initial_tick.v,
                 fee_growth_global0_x128 |-> 0,
                 fee_growth_global1_x128 |-> 0,
                 protocol_fees_token0 |-> 0,
                 protocol_fees_token1 |-> 0,
                 liquidity |-> 0,
                 position_count |-> 0,
                 unlocked |-> TRUE,
                 base_fee |-> fee,
                 min_fee |-> POOL_MIN_FEE,
                 max_fee |-> POOL_MAX_FEE,
                 last_fee_adjustment |-> 0,
                 fee_adjustment_interval |-> FEE_ADJUSTMENT_INTERVAL,
                 dynamic_fee_enabled |-> TRUE,
                 last_sequence_number |-> 0,
                 mev_config |-> default_config])

\* a pool account without data, as assert_initialized sees it
Uninitialized ==
    [token_a |-> 0, token_b |-> 0, fee |-> 0, tick_spacing |-> 0,
     sqrt_price_x96 |-> 0, tick |-> 0,
     fee_growth_global0_x128 |-> 0, fee_growth_global1_x128 |-> 0,
     protocol_fees_token0 |-> 0, protocol_fees_token1 |-> 0,
     liquidity |-> 0, position_count |-> 0, unlocked |-> FALSE,
     base_fee |-> 0, min_fee |-> 0, max_fee |-> 0, last_fee_adjustment |-> 0,
     fee_adjustment_interval |-> 0, dynamic_fee_enabled |-> FALSE,
     last_sequence_number |-> 0,
     mev_config |-> [oracle_window |-> 0, min_update_interval |-> 0,
                     max_slippage_bps |-> 0, batch_auction_enabled |-> FALSE,
                     batch_window |-> 0, oracle_enabled |-> FALSE]]

\* Pool::is_valid
is_valid(p) == p.token_a < p.token_b /\ p.fee <= 10000 /\ p.tick_spacing > 0

\* Rust's truncating division of the tick bounds by the spacing
TruncDiv(a, b) == IF a >= 0 THEN a \div b ELSE -((-a) \div b)
\* a faulty lower bound: MIN_TICK rounded down to the spacing
min_tick_floor(p) == (MIN_TICK \div p.tick_spacing) * p.tick_spacing
min_tick(p) == TruncDiv(MIN_TICK, p.tick_spacing) * p.tick_spacing
max_tick(p) == TruncDiv(MAX_TICK, p.tick_spacing) * p.tick_spacing
is_tick_spacing_valid(p, tick) == tick % p.tick_spacing = 0

validate_tick_range(p, tick_lower, tick_upper) ==
    /\ is_tick_spacing_valid(p, tick_lower)
    /\ is_tick_spacing_valid(p, tick_upper)
    /\ tick_lower < tick_upper
    /\ tick_lower >= min_tick(p)
    /\ tick_upper <= max_tick(p)

\* ------------------------------------------------------------------------
\* src/math/mev_protection.rs
\* ------------------------------------------------------------------------
MAX_OBSERVATIONS == 100

\* sort_by_key(timestamp): a stable insertion sort
RECURSIVE InsertByTimestamp(_, _)
InsertByTimestamp(sorted, obs) ==
    IF sorted = << >> THEN << obs >>
    ELSE IF sorted[Len(sorted)].timestamp <= obs.timestamp
    THEN Append(sorted, obs)
    ELSE Append(InsertByTimestamp(SubSeq(sorted, 1, Len(sorted) - 1), obs),
                sorted[Len(sorted)])

RECURSIVE SortByTimestamp(_)
SortByTimestamp(s) ==
    IF s = << >> THEN << >>
    ELSE InsertByTimestamp(SortByTimestamp(SubSeq(s, 1, Len(s) - 1)), s[Len(s)])

\* the loop of calculate_twap over valid_observations[1..]; acc is
\* <<total_weighted_sum, total_time_weight>>.  A price is below 2^160 and a
\* duration below 2^32, so the sums stay inside the word at the source's
\* width and are computed exactly.
RECURSIVE TwapAccumulate(_, _, _, _, _)
TwapAccumulate(valid, i, window_start, current_time, acc) ==
    IF i > Len(valid) THEN acc
    ELSE LET interval_start == Max(valid[i - 1].timestamp, window_start)
             interval_end == Min(valid[i].timestamp, current_time)
             avg_price == (valid[i - 1].price + valid[i].price) \div 2
         IN  TwapAccumulate(valid, i + 1, window_start, current_time,
                IF interval_end > interval_start
                THEN << acc[1] + avg_price * (interval_end - interval_start),
                        acc[2] + (interval_end - interval_start) >>
                ELSE acc)

\* a faulty TWAP that returns the weighted sum without dividing it
calculate_twap_undivided(observations, window) ==
    IF Len(observations) < 2 THEN Err("InvalidOracle")
    ELSE LET current_time == observations[Len(observations)].timestamp
             window_start == Max(current_time - window, 0)
             valid == SortByTimestamp(
                        SelectSeq(observations,
                                  LAMBDA o : o.timestamp >= window_start))
             acc == TwapAccumulate(valid, 2, window_start, current_time, << 0, 0 >>)
         IN  IF valid = << >> THEN Err("InvalidOracle")
             ELSE IF acc[2] = 0 THEN Err("InvalidOracle")
             ELSE Ok(acc[1])

calculate_twap(observations, window) ==
    IF Len(observations) < 2 THEN Err("InvalidOracle")
    ELSE LET current_time == observations[Len(observations)].timestamp
             window_start == Max(current_time - window, 0)
             valid == SortByTimestamp(
                        SelectSeq(observations,
                                  LAMBDA o : o.timestamp >= window_start))
             acc == TwapAccumulate(valid, 2, window_start, current_time, << 0, 0 >>)
         IN  IF valid = << >> THEN Err("InvalidOracle")
             ELSE IF acc[2] = 0 THEN Err("InvalidOracle")
             ELSE Ok(acc[1] \div acc[2])

\* a faulty gate that computes the TWAP and never compares the spot price
\* with it
validate_twap_vs_spot_unchecked(oracle_observations, spot_price, config) ==
    IF ~config.oracle_enabled \/ Len(oracle_observations) < 2 THEN Ok(TRUE)
    ELSE LET twap == calculate_twap(oracle_observations, config.oracle_window)
         IN  IF ~IsOk(twap) THEN twap
             ELSE IF twap.v = 0 THEN Err("Panic")
             ELSE Ok(TRUE)

\* Ok(TRUE) / Ok(FALSE) / Err
validate_twap_vs_spot(oracle_observations, spot_price, config) ==
    IF ~config.oracle_enabled \/ Len(oracle_observations) < 2 THEN Ok(TRUE)
    ELSE LET twap == calculate_twap(oracle_observations, config.oracle_window)
         IN  IF ~IsOk(twap) THEN twap
             ELSE IF twap.v = 0 THEN Err("Panic")
             ELSE LET price_diff == IF twap.v > spot_price
                                    THEN twap.v - spot_price
                                    ELSE spot_price - twap.v
                      deviation_bps == (price_diff * 10000) \div twap.v
                  IN  Ok(deviation_bps <= config.max_slippage_bps)

\* faulty orderings: one lets a sequence number skip ahead, the other lets
\* the last one be replayed
ordering_accepts_gaps(sequence_number, last_processed_sequence) ==
    sequence_number > last_processed_sequence
ordering_accepts_replay(sequence_number, last_processed_sequence) ==
    sequence_number >= last_processed_sequence
       /\ sequence_number <= last_processed_sequence + 1

validate_transaction_ordering(sequence_number, last_processed_sequence) ==
    sequence_number = last_processed_sequence + 1

validate_swap_mev_protection(p, zero_for_one, sqrt_price_limit, oracle_observations, config) ==
    LET spot == validate_twap_vs_spot(oracle_observations, p.sqrt_price_x96, config)
        twap == calculate_twap(oracle_observations, config.oracle_window)
    IN  IF ~IsOk(spot) THEN spot
        ELSE IF ~spot.v THEN Ok(FALSE)
        ELSE IF ~IsOk(twap) THEN twap
        ELSE IF zero_for_one
        THEN Ok(~(sqrt_price_limit < twap.v))
        ELSE Ok(~(sqrt_price_limit > twap.v))

RECURSIVE TrimFront(_, _)
TrimFront(s, max_len) ==
    IF Len(s) > max_len THEN TrimFront(Tail(s), max_len) ELSE s

\* a faulty update that puts the new observation at the front
update_oracle_observations_front(observations, p, current_time, max_observations) ==
    TrimFront(<< [timestamp |-> current_time, price |-> p.sqrt_price_x96,
                  tick |-> p.tick, liquidity |-> p.liquidity] >> \o observations,
              max_observations)

update_oracle_observations(observations, p, current_time, max_observations) ==
    TrimFront(Append(observations,
                     [timestamp |-> current_time, price |-> p.sqrt_price_x96,
                      tick |-> p.tick, liquidity |-> p.liquidity]),
              max_observations)

\* ------------------------------------------------------------------------
\* src/math/dynamic_fee.rs
\* ------------------------------------------------------------------------
MIN_FEE_BPS == 1
MAX_FEE_BPS == 100
VOLATILITY_WINDOW == 24
VOLUME_WINDOW == 24
PRICE_IMPACT_WINDOW == 12
ADJUSTMENT_INTERVAL == 3600
HIGH_VOLUME == 6
LOW_VOLUME == 4
BYTE_BASE == 2
\* i32::MAX; the u32 modulus is 2 * I32_T_MAX + 2
I32_T_MAX == 2147483647

\* u256_to_f64: the four limbs weighted as if they were bytes
u256_to_f64(value) ==
    (value % U64_MOD)
    + ((value \div U64_MOD) % U64_MOD) * BYTE_BASE
    + ((value \div (U64_MOD * U64_MOD)) % U64_MOD) * BYTE_BASE * BYTE_BASE
    + (value \div (U64_MOD * U64_MOD * U64_MOD)) * BYTE_BASE * BYTE_BASE * BYTE_BASE

RECURSIVE SumSeq(_)
SumSeq(s) == IF s = << >> THEN 0 ELSE Head(s) + SumSeq(Tail(s))

\* calculate_volatility compared with its two thresholds.  With n prices of
\* sum S and square sum SS the coefficient of variation c satisfies
\* c^2 = (n*SS - S^2) / S^2; "HIGH" is c > 0.05, "LOW" is c < 0.01.  A zero
\* mean gives NaN, which passes neither comparison.
VolatilityClass(price_history) ==
    IF Len(price_history) < 2 THEN "LOW"
    ELSE LET n == Len(price_history)
             prices == [i \in 1..n |-> u256_to_f64(price_history[i].price)]
             S == SumSeq(prices)
             SS == SumSeq([i \in 1..n |-> prices[i] * prices[i]])
             x == n * SS - S * S
         IN  IF S = 0 THEN "MID"
             ELSE IF x > (S * S) \div 400 THEN "HIGH"
             ELSE IF x < (S * S + 9999) \div 10000 THEN "LOW"
             ELSE "MID"

calculate_average_volume(volume_history) ==
    IF volume_history = << >> THEN 0
    ELSE SumSeq([i \in 1..Len(volume_history) |-> volume_history[i].volume])
         \div Len(volume_history)

calculate_average_price_impact(impact_history) ==
    IF impact_history = << >> THEN 0
    ELSE SumSeq([i \in 1..Len(impact_history) |-> impact_history[i].price_impact])
         \div Len(impact_history)

calculate_fee_adjustment(p, price_history, volume_history, impact_history) ==
    LET volatility == VolatilityClass(price_history)
        avg_volume == calculate_average_volume(volume_history)
        avg_impact == calculate_average_price_impact(impact_history)
        adjustment_factor ==
            (IF volatility = "HIGH" THEN 20 ELSE IF volatility = "LOW" THEN -10 ELSE 0)
          + (IF avg_volume > HIGH_VOLUME THEN -15
             ELSE IF avg_volume < LOW_VOLUME THEN 10 ELSE 0)
          + (IF avg_impact > 500 THEN 25 ELSE IF avg_impact < 100 THEN -10 ELSE 0)
        new_fee_i32 == p.fee + adjustment_factor
    IN  Min(Max(new_fee_i32, MIN_FEE_BPS), MAX_FEE_BPS)

\* push_back, then one pop_front when the window is exceeded
PushWindow(history, point, window) ==
    IF Len(history) + 1 > window THEN Tail(Append(history, point))
    ELSE Append(history, point)

\* current_time - last_adjustment >= ADJUSTMENT_INTERVAL on u32: below zero
\* the subtraction panics with overflow checks and wraps without them
should_adjust_fee(last_adjustment, current_time, overflow_checks) ==
    IF current_time < last_adjustment
    THEN IF overflow_checks THEN Err("Panic")
         \* current - last + 2^32 >= ADJUSTMENT_INTERVAL, kept within range
         ELSE Ok((last_adjustment - current_time) - I32_T_MAX
                 <= I32_T_MAX + 2 - ADJUSTMENT_INTERVAL)
    ELSE Ok(current_time - last_adjustment >= ADJUSTMENT_INTERVAL)

\* ------------------------------------------------------------------------
\* src/math/swap.rs
\* ------------------------------------------------------------------------
\* the pool and the three histories after update_dynamic_fees
update_dynamic_fees(p, price_history, volume_history, impact_history, current_timestamp, current_price, swap_volume, price_impact, overflow_checks) ==
    LET unchanged == [err |-> "Ok", pool |-> p, price_history |-> price_history,
                      volume_history |-> volume_history,
                      impact_history |-> impact_history, fee_adjusted |-> FALSE]
        due == should_adjust_fee(p.last_fee_adjustment, current_timestamp,
                                 overflow_checks)
        market_data == [timestamp |-> current_timestamp, price |-> current_price,
                        volume |-> swap_volume, price_impact |-> price_impact]
        ph == PushWindow(price_history, market_data, VOLATILITY_WINDOW)
        vh == PushWindow(volume_history, market_data, VOLUME_WINDOW)
        ih == PushWindow(impact_history, market_data, PRICE_IMPACT_WINDOW)
    IN  IF ~p.dynamic_fee_enabled THEN unchanged
        ELSE IF ~IsOk(due) THEN [unchanged EXCEPT !.err = due.err]
        ELSE IF ~due.v THEN unchanged
        ELSE [err |-> "Ok",
              pool |-> [p EXCEPT !.fee = calculate_fee_adjustment(p, ph, vh, ih),
                                 !.last_fee_adjustment = current_timestamp],
              price_history |-> ph, volume_history |-> vh,
              impact_history |-> ih, fee_adjusted |-> TRUE]

\* amount * fee / 10000, exact: the fee is in basis points
FeeAmount(amount_in, fee) == (amount_in * fee) \div 10000

estimate_swap_output(p, amount_in, zero_for_one) ==
    LET fee_amount == FeeAmount(amount_in, p.fee)
        amount_after_fee == amount_in - fee_amount
        squared == p.sqrt_price_x96 * p.sqrt_price_x96
        price_ratio == IF zero_for_one THEN squared \div Q96
                       ELSE (Q96 * Q96) \div squared
    IN  IF p.liquidity = 0 THEN Ok(0)
        ELSE IF SubOverflows(amount_in, fee_amount) THEN Err("Panic")
        ELSE IF MulOverflows(p.sqrt_price_x96, p.sqrt_price_x96) THEN Err("Panic")
        ELSE IF zero_for_one
        THEN IF price_ratio = 0 THEN Err("Panic")
             ELSE IF MulOverflows(amount_after_fee, Q96) THEN Err("Panic")
             ELSE Ok((amount_after_fee * Q96) \div price_ratio)
        ELSE IF squared = 0 THEN Err("Panic")
             ELSE IF MulOverflows(amount_after_fee, price_ratio) THEN Err("Panic")
             ELSE Ok((amount_after_fee * price_ratio) \div Q96)

\* |expected/current - 1| * 10000 in f64, capped; NaN and infinity give the cap
calculate_price_impact(p, amount_in, zero_for_one) ==
    LET amount_out == estimate_swap_output(p, amount_in, zero_for_one)
        a_in == low_u128(amount_in)
        a_out == low_u128(amount_out.v)
        num == IF a_in > a_out THEN a_in - a_out ELSE a_out - a_in
        den == IF zero_for_one THEN a_out ELSE a_in
    IN  IF p.liquidity = 0 THEN Ok(10000)
        ELSE IF ~IsOk(amount_out) THEN amount_out
        ELSE IF amount_out.v = 0 THEN Ok(10000)
        ELSE IF low_u128(p.sqrt_price_x96) = 0 \/ den = 0 THEN Ok(10000)
        ELSE Ok(Min((num * 10000) \div den, 10000))

validate_price_limit(current_price, limit_price, zero_for_one) ==
    IF zero_for_one THEN limit_price >= current_price
    ELSE limit_price <= current_price

check_price_limit_hit(current_price, limit_price, zero_for_one) ==
    IF zero_for_one THEN current_price <= limit_price
    ELSE current_price >= limit_price

\* find_next_tick_down / find_next_tick_up: one tick_spacing away
find_next_tick(p, zero_for_one) ==
    LET next_tick == IF zero_for_one THEN p.tick - p.tick_spacing
                     ELSE p.tick + p.tick_spacing
        next_sqrt_price == get_sqrt_ratio_at_tick(next_tick)
    IN  IF ~IsOk(next_sqrt_price) THEN next_sqrt_price
        ELSE Ok([tick |-> next_tick, sqrt_price |-> next_sqrt_price.v])

calculate_max_amount_in_step(current_sqrt_price, next_sqrt_price, liquidity, zero_for_one) ==
    IF zero_for_one
    THEN get_amount0_delta(current_sqrt_price, next_sqrt_price, liquidity, FALSE)
    ELSE get_amount1_delta(current_sqrt_price, next_sqrt_price, liquidity, FALSE)

calculate_new_sqrt_price(current_sqrt_price, liquidity, amount_in, zero_for_one) ==
    IF zero_for_one
    THEN get_next_sqrt_price_from_amount0_rounding_up(
            current_sqrt_price, liquidity, amount_in, TRUE)
    ELSE get_next_sqrt_price_from_amount1_rounding_down(
            current_sqrt_price, liquidity, amount_in, FALSE)

StepResult(e, p, a_in, a_out) ==
    [err |-> e, pool |-> p, amount_in |-> a_in, amount_out |-> a_out]

\* swap_step: the price is stored before the tick of the new price is
\* looked up, so a failing lookup leaves the new price in the pool
swap_step(p, amount_remaining, zero_for_one) ==
    LET next == find_next_tick(p, zero_for_one)
        max_amount_in_step ==
            calculate_max_amount_in_step(p.sqrt_price_x96, next.v.sqrt_price,
                                         p.liquidity, zero_for_one)
        amount_in_step == Min(amount_remaining, max_amount_in_step.v)
        amount_out_step ==
            IF zero_for_one
            THEN get_amount1_delta(p.sqrt_price_x96, next.v.sqrt_price,
                                   p.liquidity, FALSE)
            ELSE get_amount0_delta(p.sqrt_price_x96, next.v.sqrt_price,
                                   p.liquidity, FALSE)
        new_sqrt_price == calculate_new_sqrt_price(p.sqrt_price_x96, p.liquidity,
                                                   amount_in_step, zero_for_one)
        new_tick == get_tick_at_sqrt_ratio(new_sqrt_price.v)
        priced == [p EXCEPT !.sqrt_price_x96 = new_sqrt_price.v]
    IN  IF ~IsOk(next) THEN StepResult(next.err, p, 0, 0)
        ELSE IF ~IsOk(max_amount_in_step)
        THEN StepResult(max_amount_in_step.err, p, 0, 0)
        ELSE IF amount_in_step = 0 THEN StepResult("Ok", p, 0, 0)
        ELSE IF ~IsOk(amount_out_step) THEN StepResult(amount_out_step.err, p, 0, 0)
        ELSE IF ~IsOk(new_sqrt_price) THEN StepResult(new_sqrt_price.err, p, 0, 0)
        ELSE IF ~IsOk(new_tick) THEN StepResult(new_tick.err, priced, 0, 0)
        ELSE StepResult("Ok", [priced EXCEPT !.tick = new_tick.v],
                        amount_in_step, amount_out_step.v)

\* the while loop of execute_swap: LoopStep is the loop body after the
\* call of swap_step, whose outcome is step
RECURSIVE SwapLoop(_, _, _, _, _, _)
LoopStep(step, amount_in, amount_in_used, amount_out, zero_for_one, sqrt_price_limit) ==
    IF step.err # "Ok"
    THEN StepResult(step.err, step.pool, amount_in_used, amount_out)
    ELSE IF AddOverflows(amount_in_used, step.amount_in)
            \/ AddOverflows(amount_out, step.amount_out)
    THEN StepResult("Panic", step.pool, amount_in_used, amount_out)
    ELSE IF check_price_limit_hit(step.pool.sqrt_price_x96, sqrt_price_limit,
                                  zero_for_one)
    THEN StepResult("Ok", step.pool, amount_in_used + step.amount_in,
                    amount_out + step.amount_out)
    ELSE IF step.amount_in = 0
    THEN StepResult("Ok", step.pool, amount_in_used + step.amount_in,
                    amount_out + step.amount_out)
    ELSE SwapLoop(step.pool, amount_in, amount_in_used + step.amount_in,
                  amount_out + step.amount_out, zero_for_one, sqrt_price_limit)

SwapLoop(p, amount_in, amount_in_used, amount_out, zero_for_one, sqrt_price_limit) ==
    IF ~(amount_in_used < amount_in)
    THEN StepResult("Ok", p, amount_in_used, amount_out)
    ELSE LoopStep(swap_step(p, amount_in - amount_in_used, zero_for_one),
                  amount_in, amount_in_used, amount_out, zero_for_one,
                  sqrt_price_limit)

\* a faulty update that credits the fee to the accumulator of the output token
update_pool_after_swap_crossed(p, amount_in, zero_for_one) ==
    LET fee_amount == FeeAmount(amount_in, p.fee)
        fee_growth == (fee_amount * Q96) \div p.liquidity
        global == IF zero_for_one THEN p.fee_growth_global1_x128
                  ELSE p.fee_growth_global0_x128
    IN  IF SubOverflows(amount_in, fee_amount) THEN [err |-> "Panic", pool |-> p]
        ELSE IF MulOverflows(fee_amount, Q96) THEN [err |-> "Panic", pool |-> p]
        ELSE IF p.liquidity = 0 THEN [err |-> "Panic", pool |-> p]
        ELSE IF AddOverflows(global, fee_growth) THEN [err |-> "Panic", pool |-> p]
        ELSE IF zero_for_one
        THEN [err |-> "Ok", pool |->
                [p EXCEPT !.fee_growth_global1_x128 = @ + fee_growth]]
        ELSE [err |-> "Ok", pool |->
                [p EXCEPT !.fee_growth_global0_x128 = @ + fee_growth]]

\* update_pool_after_swap: the fee of the input token is added to that
\* token's global accumulator, divided by the pool's liquidity
update_pool_after_swap(p, amount_in, zero_for_one) ==
    LET fee_amount == FeeAmount(amount_in, p.fee)
        fee_growth == (fee_amount * Q96) \div p.liquidity
        global == IF zero_for_one THEN p.fee_growth_global0_x128
                  ELSE p.fee_growth_global1_x128
    IN  IF SubOverflows(amount_in, fee_amount) THEN [err |-> "Panic", pool |-> p]
        ELSE IF MulOverflows(fee_amount, Q96) THEN [err |-> "Panic", pool |-> p]
        ELSE IF p.liquidity = 0 THEN [err |-> "Panic", pool |-> p]
        ELSE IF AddOverflows(global, fee_growth) THEN [err |-> "Panic", pool |-> p]
        ELSE IF zero_for_one
        THEN [err |-> "Ok", pool |->
                [p EXCEPT !.fee_growth_global0_x128 = @ + fee_growth]]
        ELSE [err |-> "Ok", pool |->
                [p EXCEPT !.fee_growth_global1_x128 = @ + fee_growth]]

\* a faulty guard that never sees the lock
reentrancy_guard_absent(p) == FALSE

\* the reentrancy guard at the head of execute_swap
reentrancy_guard(p) == ~p.unlocked

SwapOutcome(e, p, ph, vh, ih, obs, used, out, fee_amount) ==
    [err |-> e, pool |-> p, price_history |-> ph, volume_history |-> vh,
     impact_history |-> ih, oracle_observations |-> obs,
     amount_in |-> used, amount_out |-> out, fee_amount |-> fee_amount]

\* execute_swap from the update of the pool on: fees is what
\* update_dynamic_fees left, loop what the while loop left, after what
\* update_pool_after_swap returned
execute_swap_commit(obs, current_timestamp, sequence_number, fees, loop, after) ==
    IF after.err # "Ok"
    THEN SwapOutcome(after.err, after.pool, fees.price_history,
                     fees.volume_history, fees.impact_history, obs, 0, 0, 0)
    ELSE SwapOutcome("Ok",
                     [after.pool EXCEPT !.last_sequence_number = sequence_number],
                     fees.price_history, fees.volume_history, fees.impact_history,
                     update_oracle_observations(
                         obs,
                         [after.pool EXCEPT !.last_sequence_number = sequence_number],
                         current_timestamp, MAX_OBSERVATIONS),
                     loop.amount_in, loop.amount_out,
                     FeeAmount(loop.amount_in, after.pool.fee))

\* execute_swap after the while loop
execute_swap_update(zero_for_one, obs, current_timestamp, sequence_number, fees, loop) ==
    IF loop.err # "Ok"
    THEN SwapOutcome(loop.err, loop.pool, fees.price_history, fees.volume_history,
                     fees.impact_history, obs, 0, 0, 0)
    ELSE execute_swap_commit(obs, current_timestamp, sequence_number, fees, loop,
             update_pool_after_swap(loop.pool, loop.amount_in, zero_for_one))

\* execute_swap after update_dynamic_fees
execute_swap_steps(p, amount_in, zero_for_one, sqrt_price_limit, ph, vh, ih, obs, current_timestamp, sequence_number, fees) ==
    IF fees.err # "Ok" THEN SwapOutcome(fees.err, p, ph, vh, ih, obs, 0, 0, 0)
    ELSE execute_swap_update(zero_for_one, obs, current_timestamp, sequence_number,
             fees,
             SwapLoop(fees.pool, amount_in, 0, 0, zero_for_one, sqrt_price_limit))

\* SwapEngine::execute_swap on the caller's pool and buffers: the outcome
\* holds the status and everything the call leaves behind
execute_swap(p, amount_in, zero_for_one, sqrt_price_limit, ph, vh, ih, obs, current_timestamp, sequence_number, overflow_checks) ==
    LET untouched(e) == SwapOutcome(e, p, ph, vh, ih, obs, 0, 0, 0)
        price_impact == calculate_price_impact(p, amount_in, zero_for_one)
        gate == validate_swap_mev_protection(p, zero_for_one, sqrt_price_limit,
                                             obs, p.mev_config)
    IN  IF reentrancy_guard(p) THEN untouched("Unauthorized")
        ELSE IF ~IsOk(price_impact) THEN untouched(price_impact.err)
        ELSE IF ~validate_price_limit(p.sqrt_price_x96, sqrt_price_limit, zero_for_one)
        THEN untouched("InvalidPrice")
        ELSE IF ~validate_transaction_ordering(sequence_number, p.last_sequence_number)
        THEN untouched("InvalidInstruction")
        ELSE IF ~IsOk(gate) THEN untouched(gate.err)
        ELSE IF ~gate.v THEN untouched("InvalidPrice")
        ELSE execute_swap_steps(p, amount_in, zero_for_one, sqrt_price_limit,
                 ph, vh, ih, obs, current_timestamp, sequence_number,
                 update_dynamic_fees(p, ph, vh, ih, current_timestamp,
                                     p.sqrt_price_x96, amount_in, price_impact.v,
                                     overflow_checks))

\* ------------------------------------------------------------------------
\* src/state/tick.rs, src/state/position.rs
\* ------------------------------------------------------------------------
I256_SIGN == 32768

\* the limbs of the word in reverse order: each limb is written big endian
\* at its own index and the buffer is read back as one big-endian number
LimbReverse(v) ==
    (v % U64_MOD) * (U64_MOD * U64_MOD * U64_MOD)
    + ((v \div U64_MOD) % U64_MOD) * (U64_MOD * U64_MOD)
    + ((v \div (U64_MOD * U64_MOD)) % U64_MOD) * U64_MOD
    + (v \div (U64_MOD * U64_MOD * U64_MOD))

\* Tick::new
TickNew == [exists |-> TRUE, liquidity_gross |-> 0, liquidity_net |-> 0,
            initialized |-> FALSE]
NoTick == [exists |-> FALSE, liquidity_gross |-> 0, liquidity_net |-> 0,
           initialized |-> FALSE]

\* Tick::update_liquidity: the gross liquidity grows by the shuffled
\* magnitude whatever the sign; the net liquidity moves up at an upper tick
\* and down at a lower tick
Tick_update_liquidity(t, liquidity_delta, upper) ==
    LET abs_delta == IF liquidity_delta >= I256_SIGN
                     THEN LimbReverse(I256Sub(0, liquidity_delta))
                     ELSE LimbReverse(liquidity_delta)
    IN  IF AddOverflows(t.liquidity_gross, abs_delta) THEN Err("Panic")
        ELSE Ok([t EXCEPT
                   !.initialized = TRUE,
                   !.liquidity_net = IF upper THEN I256Add(@, liquidity_delta)
                                     ELSE I256Sub(@, liquidity_delta),
                   !.liquidity_gross = @ + abs_delta])

\* Position::new
PositionNew(owner, tick_lower, tick_upper, position_id) ==
    [exists |-> TRUE, owner |-> owner, tick_lower |-> tick_lower,
     tick_upper |-> tick_upper, liquidity |-> 0,
     fee_growth_inside0_last_x128 |-> 0, fee_growth_inside1_last_x128 |-> 0,
     tokens_owed0 |-> 0, tokens_owed1 |-> 0, position_id |-> position_id,
     is_active |-> TRUE]
NoPosition ==
    [exists |-> FALSE, owner |-> "none", tick_lower |-> 0, tick_upper |-> 0,
     liquidity |-> 0,
     fee_growth_inside0_last_x128 |-> 0, fee_growth_inside1_last_x128 |-> 0,
     tokens_owed0 |-> 0, tokens_owed1 |-> 0, position_id |-> 0,
     is_active |-> FALSE]

add_tokens_owed(pos, token0_amount, token1_amount) ==
    [pos EXCEPT !.tokens_owed0 = saturating_add(@, token0_amount),
                !.tokens_owed1 = saturating_add(@, token1_amount)]

\* a faulty collection that leaves what is owed as it was
collect_tokens_owed_kept(pos, token0_amount, token1_amount) == pos

\* the pair Position::collect_tokens_owed returns
collected_tokens(pos, token0_amount, token1_amount) ==
    << Min(pos.tokens_owed0, token0_amount), Min(pos.tokens_owed1, token1_amount) >>

collect_tokens_owed(pos, token0_amount, token1_amount) ==
    [pos EXCEPT !.tokens_owed0 = @ - Min(@, token0_amount),
                !.tokens_owed1 = @ - Min(@, token1_amount)]

update_fee_growth(pos, fee_growth_inside0, fee_growth_inside1) ==
    [pos EXCEPT !.fee_growth_inside0_last_x128 = fee_growth_inside0,
                !.fee_growth_inside1_last_x128 = fee_growth_inside1]

\* ------------------------------------------------------------------------
\* src/processor/add_liquidity.rs, remove_liquidity.rs, collect_fees.rs
\* ------------------------------------------------------------------------
\* calculate_amounts_for_liquidity of both processors: round_up is TRUE when
\* adding and FALSE when removing
calculate_amounts_for_liquidity(p, tick_lower, tick_upper, liquidity, round_up) ==
    LET sqrt_price_lower == get_sqrt_ratio_at_tick(tick_lower)
        sqrt_price_upper == get_sqrt_ratio_at_tick(tick_upper)
        current_sqrt_price == p.sqrt_price_x96
        lo == sqrt_price_lower.v
        hi == sqrt_price_upper.v
        amount_0 == IF current_sqrt_price <= lo
                    THEN get_amount0_delta(lo, hi, liquidity, round_up)
                    ELSE IF current_sqrt_price < hi
                    THEN get_amount0_delta(current_sqrt_price, hi, liquidity, round_up)
                    ELSE Ok(0)
        amount_1 == IF current_sqrt_price <= lo THEN Ok(0)
                    ELSE IF current_sqrt_price < hi
                    THEN get_amount1_delta(lo, current_sqrt_price, liquidity, round_up)
                    ELSE get_amount1_delta(lo, hi, liquidity, round_up)
    IN  IF ~IsOk(sqrt_price_lower) THEN sqrt_price_lower
        ELSE IF ~IsOk(sqrt_price_upper) THEN sqrt_price_upper
        ELSE IF ~IsOk(amount_0) THEN amount_0
        ELSE IF ~IsOk(amount_1) THEN amount_1
        ELSE Ok([amount_0 |-> amount_0.v, amount_1 |-> amount_1.v])

\* calculate_fees_earned of remove_liquidity: the global accumulators stand
\* in for the growth inside the range; the subtraction is the plain one
calculate_fees_earned(p, pos) ==
    LET fee_growth_delta_0 == p.fee_growth_global0_x128 - pos.fee_growth_inside0_last_x128
        fee_growth_delta_1 == p.fee_growth_global1_x128 - pos.fee_growth_inside1_last_x128
    IN  IF SubOverflows(p.fee_growth_global0_x128, pos.fee_growth_inside0_last_x128)
           \/ SubOverflows(p.fee_growth_global1_x128, pos.fee_growth_inside1_last_x128)
        THEN Err("Panic")
        ELSE IF MulOverflows(pos.liquidity, fee_growth_delta_0)
                \/ MulOverflows(pos.liquidity, fee_growth_delta_1)
        THEN Err("Panic")
        ELSE Ok([fees_0 |-> (pos.liquidity * fee_growth_delta_0) \div U128_MOD,
                 fees_1 |-> (pos.liquidity * fee_growth_delta_1) \div U128_MOD])

\* calculate_accrued_fees of collect_fees: checked_sub(..).unwrap_or(0)
calculate_accrued_fees(p, pos) ==
    LET fee_growth_delta_0 ==
            Max(p.fee_growth_global0_x128 - pos.fee_growth_inside0_last_x128, 0)
        fee_growth_delta_1 ==
            Max(p.fee_growth_global1_x128 - pos.fee_growth_inside1_last_x128, 0)
    IN  IF pos.liquidity = 0 THEN Ok([fees_0 |-> 0, fees_1 |-> 0])
        ELSE IF MulOverflows(pos.liquidity, fee_growth_delta_0)
                \/ MulOverflows(pos.liquidity, fee_growth_delta_1)
        THEN Err("Panic")
        ELSE Ok([fees_0 |-> (pos.liquidity * fee_growth_delta_0) \div U128_MOD,
                 fees_1 |-> (pos.liquidity * fee_growth_delta_1) \div U128_MOD])

\* ------------------------------------------------------------------------
\* State
\* ------------------------------------------------------------------------
VARIABLES
    pool,                 \* the Pool account
    positions,            \* range -> Position account of the owner
    ticks,                \* tick index -> Tick account
    vaults,               \* balances of the pool's two token vaults
    oracle_observations,  \* the caller's Vec<OracleObservation>
    price_history,        \* the caller's three VecDeque<MarketDataPoint>
    volume_history,
    impact_history,
    result,               \* what the last execute_swap call returned
    args                  \* the arguments drawn for a pure function; << >> elsewhere

vars == << pool, positions, ticks, vaults, oracle_observations, price_history,
           volume_history, impact_history, result, args >>

\* bounds of the explored instance
MaxObs == 2
MaxHistory == 2
MaxSeq == 2

\* inputs of the explored instance
InitialPrices == {100}
InitialFees == {10000}
PoolMints == << 1, 2 >>
Owner == "alice"
Signers == {"alice", "mallory"}
Ranges == {<< -1, 1 >>, << -1, 2 >>, << 2, 1 >>}
TickIndices == {-1, 1, 2}
LiquidityDeltas == {0, 4}
AmountLimits == {<< 0, 0 >>, << 15, 15 >>}
AmountsIn == {0, 1, 2}
SqrtPriceLimits == {4, 255}
OracleTimes == {300, 600}
SwapTimes == {600, 4200}


\* the state after initialize_pool: Pool::new, no position, no tick, empty
\* vaults, and the caller's empty buffers
InitWith(unlocked) ==
    /\ \E price \in InitialPrices, fee \in InitialFees :
          pool = [PoolNew(PoolMints[1], PoolMints[2], fee, 1, price).v
                    EXCEPT !.unlocked = unlocked]
    /\ positions = [r \in Ranges |-> NoPosition]
    /\ ticks = [t \in TickIndices |-> NoTick]
    /\ vaults = [a |-> 0, b |-> 0]
    /\ oracle_observations = << >>
    /\ price_history = << >>
    /\ volume_history = << >>
    /\ impact_history = << >>
    /\ args = << >>
    /\ result = "None"

Init == InitWith(TRUE)

\* ------------------------------------------------------------------------
\* Operations
\* ------------------------------------------------------------------------
\* SwapEngine::execute_swap called by a host that keeps the pool, the oracle
\* observations and the three histories between calls.  overflow_checks is
\* the build profile, which decides the outcome of a u32 subtraction below
\* zero and nothing else.
Returned(out) ==
    /\ pool' = out.pool
    /\ price_history' = out.price_history
    /\ volume_history' = out.volume_history
    /\ impact_history' = out.impact_history
    /\ oracle_observations' = out.oracle_observations
    /\ result' = out.err

ExecuteSwap ==
    \E amount_in \in AmountsIn, zero_for_one \in BOOLEAN,
       sqrt_price_limit \in SqrtPriceLimits, current_timestamp \in SwapTimes,
       sequence_number \in 1..MaxSeq :
      /\ Len(price_history) < MaxHistory
      /\ \E overflow_checks \in IF current_timestamp < pool.last_fee_adjustment
                              THEN BOOLEAN ELSE {TRUE} :
            Returned(execute_swap(pool, amount_in, zero_for_one, sqrt_price_limit,
                                  price_history, volume_history, impact_history,
                                  oracle_observations, current_timestamp,
                                  sequence_number, overflow_checks))
      /\ UNCHANGED << args, positions, ticks, vaults >>

\* MevProtectionEngine::update_oracle_observations called by the host, once
\* per reading of its clock
UpdateOracleObservations ==
    \E current_time \in OracleTimes :
        /\ Len(oracle_observations) < MaxObs
        /\ oracle_observations # << >> =>
              oracle_observations[Len(oracle_observations)].timestamp < current_time
        /\ oracle_observations' =
              update_oracle_observations(oracle_observations, pool, current_time,
                                         MAX_OBSERVATIONS)
        /\ UNCHANGED << args, pool, positions, ticks, vaults, price_history,
                        volume_history, impact_history, result >>

\* what a processor leaves behind; on an error the transaction keeps nothing
Processed(e, p, pos, tick_lower, tick_upper, v) ==
    [err |-> e, pool |-> p, position |-> pos, tick_lower |-> tick_lower,
     tick_upper |-> tick_upper, vaults |-> v]

\* processor::add_liquidity::process on the owner's position of the range
add_liquidity(p, pos, tl, tu, v, tick_lower, tick_upper, liquidity_delta, amount_0_max, amount_1_max) ==
    LET fail(e) == Processed(e, p, pos, tl, tu, v)
        amounts == calculate_amounts_for_liquidity(p, tick_lower, tick_upper,
                                                   liquidity_delta, TRUE)
        amount_0_u64 == low_u64(amounts.v.amount_0)
        amount_1_u64 == low_u64(amounts.v.amount_1)
        created == ~pos.exists
        position == IF created
                    THEN PositionNew(Owner, tick_lower, tick_upper, p.position_count)
                    ELSE pos
        counted == IF created THEN [p EXCEPT !.position_count = @ + 1] ELSE p
        lower == Tick_update_liquidity(IF tl.exists THEN tl ELSE TickNew,
                                       liquidity_delta, FALSE)
        upper == Tick_update_liquidity(IF tu.exists THEN tu ELSE TickNew,
                                       liquidity_delta, TRUE)
        in_range == p.tick >= tick_lower /\ p.tick < tick_upper
    IN  IF liquidity_delta = 0 THEN fail("InsufficientLiquidity")
        ELSE IF ~validate_tick_range(p, tick_lower, tick_upper)
        THEN fail("InvalidTickRange")
        ELSE IF ~IsOk(amounts) THEN fail(amounts.err)
        ELSE IF amount_0_u64 > amount_0_max \/ amount_1_u64 > amount_1_max
        THEN fail("InsufficientLiquidity")
        ELSE IF AddOverflows(position.liquidity, liquidity_delta) THEN fail("Panic")
        ELSE IF ~IsOk(lower) THEN fail(lower.err)
        ELSE IF ~IsOk(upper) THEN fail(upper.err)
        ELSE IF in_range /\ AddOverflows(p.liquidity, liquidity_delta)
        THEN fail("Panic")
        ELSE Processed("Ok",
                [counted EXCEPT !.liquidity = IF in_range THEN @ + liquidity_delta
                                              ELSE @],
                [position EXCEPT !.liquidity = @ + liquidity_delta],
                lower.v, upper.v,
                [a |-> v.a + amount_0_u64, b |-> v.b + amount_1_u64])

\* the accounts after a processor call on the position of range r
Commit(r, out) ==
    IF out.err = "Ok"
    THEN /\ pool' = out.pool
         /\ positions' = [positions EXCEPT ![r] = out.position]
         /\ ticks' = [ticks EXCEPT ![r[1]] = out.tick_lower,
                                   ![r[2]] = out.tick_upper]
         /\ vaults' = out.vaults
    ELSE UNCHANGED << pool, positions, ticks, vaults >>

\* the instructions below begin with Pool::deserialize, which fails on a
\* pool account without data
AddLiquidity ==
    \E r \in Ranges, liquidity_delta \in LiquidityDeltas,
       amount_max \in AmountLimits :
        /\ pool # Uninitialized
        /\ LET out == add_liquidity(pool, positions[r], ticks[r[1]], ticks[r[2]],
                                    vaults, r[1], r[2], liquidity_delta,
                                    amount_max[1], amount_max[2])
           IN  Commit(r, out)
        /\ UNCHANGED << args, oracle_observations, price_history, volume_history,
                        impact_history, result >>

\* u64::saturating_add
saturating_add_u64(a, b) == Min(a + b, U64_MOD - 1)

\* a faulty check that takes every signer for the owner
owner_mismatch_ignored(pos, signer) == FALSE

\* the owner check of remove_liquidity and collect_fees
owner_mismatch(pos, signer) == pos.owner # signer

\* processor::remove_liquidity::process
remove_liquidity(p, pos, tl, tu, v, signer, liquidity_delta, amount_0_min, amount_1_min) ==
    LET fail(e) == Processed(e, p, pos, tl, tu, v)
        amounts == calculate_amounts_for_liquidity(p, pos.tick_lower, pos.tick_upper,
                                                   liquidity_delta, FALSE)
        amount_0_u64 == low_u64(amounts.v.amount_0)
        amount_1_u64 == low_u64(amounts.v.amount_1)
        fees == calculate_fees_earned(p, pos)
        total_amount_0 == saturating_add_u64(amount_0_u64, low_u64(fees.v.fees_0))
        total_amount_1 == saturating_add_u64(amount_1_u64, low_u64(fees.v.fees_1))
        reduced == add_tokens_owed([pos EXCEPT !.liquidity = @ - liquidity_delta],
                                   fees.v.fees_0, fees.v.fees_1)
        negative_delta == I256Sub(0, liquidity_delta)
        lower == Tick_update_liquidity(tl, negative_delta, FALSE)
        upper == Tick_update_liquidity(tu, negative_delta, TRUE)
        in_range == p.tick >= pos.tick_lower /\ p.tick < pos.tick_upper
    IN  IF ~pos.exists THEN fail("UninitializedAccount")
        ELSE IF owner_mismatch(pos, signer) THEN fail("Unauthorized")
        ELSE IF liquidity_delta = 0 THEN fail("InsufficientLiquidity")
        ELSE IF pos.liquidity < liquidity_delta THEN fail("InsufficientLiquidity")
        ELSE IF ~IsOk(amounts) THEN fail(amounts.err)
        ELSE IF amount_0_u64 < amount_0_min \/ amount_1_u64 < amount_1_min
        THEN fail("InsufficientLiquidity")
        ELSE IF ~IsOk(fees) THEN fail(fees.err)
        ELSE IF ~tl.exists \/ ~tu.exists THEN fail("UninitializedAccount")
        ELSE IF ~IsOk(lower) THEN fail(lower.err)
        ELSE IF ~IsOk(upper) THEN fail(upper.err)
        ELSE IF in_range /\ SubOverflows(p.liquidity, liquidity_delta)
        THEN fail("Panic")
        ELSE IF total_amount_0 > v.a \/ total_amount_1 > v.b
        THEN fail("InsufficientFunds")
        ELSE Processed("Ok",
                [p EXCEPT !.liquidity = IF in_range THEN @ - liquidity_delta ELSE @],
                [reduced EXCEPT !.is_active = IF reduced.liquidity = 0 THEN FALSE
                                              ELSE @],
                lower.v, upper.v,
                [a |-> v.a - total_amount_0, b |-> v.b - total_amount_1])

RemoveLiquidity ==
    \E r \in Ranges, signer \in Signers, liquidity_delta \in LiquidityDeltas,
       amount_min \in AmountLimits :
        /\ pool # Uninitialized
        /\ LET out == remove_liquidity(pool, positions[r], ticks[r[1]], ticks[r[2]],
                                       vaults, signer, liquidity_delta,
                                       amount_min[1], amount_min[2])
           IN  Commit(r, out)
        /\ UNCHANGED << args, oracle_observations, price_history, volume_history,
                        impact_history, result >>

\* processor::collect_fees::process; "no fees to collect" returns Ok before
\* anything is written
collect_fees(p, pos, tl, tu, v, signer, amount_0_requested, amount_1_requested) ==
    LET fail(e) == Processed(e, p, pos, tl, tu, v)
        accrued == calculate_accrued_fees(p, pos)
        updated == update_fee_growth(
                      add_tokens_owed(pos, accrued.v.fees_0, accrued.v.fees_1),
                      p.fee_growth_global0_x128, p.fee_growth_global1_x128)
        owed0 == low_u64(updated.tokens_owed0)
        owed1 == low_u64(updated.tokens_owed1)
        amount_0_to_collect ==
            IF amount_0_requested = 0 \/ amount_0_requested > owed0 THEN owed0
            ELSE amount_0_requested
        amount_1_to_collect ==
            IF amount_1_requested = 0 \/ amount_1_requested > owed1 THEN owed1
            ELSE amount_1_requested
        collected_0 == Min(updated.tokens_owed0, amount_0_to_collect)
        collected_1 == Min(updated.tokens_owed1, amount_1_to_collect)
        collected == collect_tokens_owed(updated, amount_0_to_collect,
                                         amount_1_to_collect)
    IN  IF ~pos.exists THEN fail("UninitializedAccount")
        ELSE IF owner_mismatch(pos, signer) THEN fail("Unauthorized")
        ELSE IF ~pos.is_active THEN fail("InvalidAccount")
        ELSE IF ~IsOk(accrued) THEN fail(accrued.err)
        ELSE IF amount_0_to_collect = 0 /\ amount_1_to_collect = 0 THEN fail("Ok")
        ELSE IF low_u64(collected_0) > v.a \/ low_u64(collected_1) > v.b
        THEN fail("InsufficientFunds")
        ELSE IF \/ (low_u64(collected_0) > 0
                    /\ AddOverflows(p.protocol_fees_token0, collected_0))
                \/ (low_u64(collected_1) > 0
                    /\ AddOverflows(p.protocol_fees_token1, collected_1))
        THEN fail("Panic")
        ELSE Processed("Ok",
                [p EXCEPT
                   !.protocol_fees_token0 =
                       IF low_u64(collected_0) > 0 THEN @ + collected_0 ELSE @,
                   !.protocol_fees_token1 =
                       IF low_u64(collected_1) > 0 THEN @ + collected_1 ELSE @],
                collected, tl, tu,
                [a |-> v.a - low_u64(collected_0), b |-> v.b - low_u64(collected_1)])

CollectFees ==
    \E r \in Ranges, signer \in Signers,
       amount_requested \in AmountLimits :
        /\ pool # Uninitialized
        /\ LET out == collect_fees(pool, positions[r], ticks[r[1]], ticks[r[2]],
                                   vaults, signer, amount_requested[1],
                                   amount_requested[2])
           IN  Commit(r, out)
        /\ UNCHANGED << args, oracle_observations, price_history, volume_history,
                        impact_history, result >>

Next ==
    \/ ExecuteSwap
    \/ UpdateOracleObservations
    \/ AddLiquidity
    \/ RemoveLiquidity
    \/ CollectFees

Spec == Init /\ [][Next]_vars

\* the swap engine called on a pool the caller may hold locked
InitCaller == \E unlocked \in BOOLEAN : InitWith(unlocked)
SpecCaller == InitCaller /\ [][Next]_vars

\* ------------------------------------------------------------------------
\* The calls of execute_swap the host can make in the current state
\* ------------------------------------------------------------------------
SwapCalls ==
    {c \in [amount_in : AmountsIn, zero_for_one : BOOLEAN,
            sqrt_price_limit : SqrtPriceLimits, current_timestamp : SwapTimes,
            sequence_number : 1..MaxSeq, overflow_checks : BOOLEAN] :
        c.overflow_checks \/ c.current_timestamp < pool.last_fee_adjustment}

\* what the call c returns and leaves behind when made in the current state
SwapCall(c) ==
    execute_swap(pool, c.amount_in, c.zero_for_one, c.sqrt_price_limit,
                 price_history, volume_history, impact_history,
                 oracle_observations, c.current_timestamp, c.sequence_number,
                 c.overflow_checks)

\* the pool and the four buffers as the call leaves them
Left(out) == << out.pool, out.price_history, out.volume_history,
                out.impact_history, out.oracle_observations >>
Held == << pool, price_history, volume_history, impact_history,
           oracle_observations >>

\* ------------------------------------------------------------------------
\* Properties
\* ------------------------------------------------------------------------
\* the position of range r holds the pool's current tick
InRange(r) ==
    /\ positions[r].exists
    /\ positions[r].tick_lower <= pool.tick
    /\ pool.tick < positions[r].tick_upper

RECURSIVE SumInRange(_)
SumInRange(rs) ==
    IF rs = {} THEN 0
    ELSE LET r == CHOOSE x \in rs : TRUE
         IN  (IF InRange(r) THEN positions[r].liquidity ELSE 0)
             + SumInRange(rs \ {r})

\* C1: after any sequence of initialize_pool, add_liquidity, remove_liquidity
\* and swap operations, pool.liquidity is the sum of the liquidity of the
\* positions whose range holds pool.tick.
C1_ActiveLiquidity == pool.liquidity = SumInRange(Ranges)

Abs(x) == IF x < 0 THEN -x ELSE x

\* the fees of the swap's input token that the position can realise on pool
\* p: what collect_fees would add to its tokens_owed
Realisable(p, pos, zero_for_one) ==
    LET accrued == calculate_accrued_fees(p, pos)
    IN  IF ~IsOk(accrued) THEN 0
        ELSE IF zero_for_one THEN accrued.v.fees_0 ELSE accrued.v.fees_1

\* the increase of the realisable fees of the in-range positions over a swap
RECURSIVE Credited(_, _, _)
Credited(rs, after, zero_for_one) ==
    IF rs = {} THEN 0
    ELSE LET r == CHOOSE x \in rs : TRUE
         IN  (IF InRange(r)
              THEN Realisable(after, positions[r], zero_for_one)
                   - Realisable(pool, positions[r], zero_for_one)
              ELSE 0)
             + Credited(rs \ {r}, after, zero_for_one)

\* C2: for any successful swap, the fees of the input token credited to the
\* in-range positions are never more than the fee the swap charged and fall
\* short of it by at most one unit per crossed tick.
C2_FeeConservation ==
    \A c \in SwapCalls :
        LET out == SwapCall(c)
            credited == Credited(Ranges, out.pool, c.zero_for_one)
            crossed == Abs(out.pool.tick - pool.tick)
        IN  out.err = "Ok" =>
                /\ credited <= out.fee_amount
                /\ out.fee_amount - credited <= crossed

\* the call's sequence number is the one after the last accepted
InOrder(c) == c.sequence_number = pool.last_sequence_number + 1

\* the checks of execute_swap that come before the ordering check pass
ReachesOrdering(c) ==
    /\ pool.unlocked
    /\ IsOk(calculate_price_impact(pool, c.amount_in, c.zero_for_one))
    /\ validate_price_limit(pool.sqrt_price_x96, c.sqrt_price_limit, c.zero_for_one)

\* C3 as stated: execute_swap called with sequence_number other than
\* last_sequence_number + 1 fails with InvalidInstruction and leaves the
\* pool, the oracle observations and the three histories unchanged.
C3_OutOfOrderInvalidInstruction ==
    \A c \in SwapCalls :
        ~InOrder(c) =>
            /\ SwapCall(c).err = "InvalidInstruction"
            /\ Left(SwapCall(c)) = Held

\* C3 amended: execute_swap called with sequence_number other than
\* last_sequence_number + 1 fails and leaves the pool, the oracle
\* observations and the three histories unchanged; the error is
\* InvalidInstruction when the pool is unlocked, the price impact is
\* computed and the price limit passes validate_price_limit, and the error
\* of the earlier check otherwise.
C3_OutOfOrderRejected ==
    \A c \in SwapCalls :
        ~InOrder(c) =>
            /\ SwapCall(c).err # "Ok"
            /\ Left(SwapCall(c)) = Held
            /\ ReachesOrdering(c) <=> SwapCall(c).err = "InvalidInstruction"

\* a replay of the sequence number of a successful swap has been refused
C3_Witness ==
    /\ result = "InvalidInstruction"
    /\ pool.last_sequence_number = 1

\* C4: a successful swap carries the sequence number after the last accepted
\* one and stores it in last_sequence_number, which starts at 0; no step
\* other than a successful swap changes last_sequence_number.  The accepted
\* sequence numbers are therefore 1, 2, 3, ... in execution order and none
\* is accepted twice.
C4_SequenceAdvance ==
    /\ pool.last_sequence_number = 0
    /\ [](\A c \in SwapCalls :
            SwapCall(c).err = "Ok" =>
                /\ InOrder(c)
                /\ SwapCall(c).pool.last_sequence_number = c.sequence_number)
    /\ [][pool'.last_sequence_number # pool.last_sequence_number =>
            /\ result' = "Ok"
            /\ pool'.last_sequence_number = pool.last_sequence_number + 1
            /\ \E c \in SwapCalls :
                  /\ SwapCall(c).err = "Ok"
                  /\ SwapCall(c).pool = pool']_vars

\* two swaps have succeeded, with the sequence numbers 1 and 2
C4_Witness ==
    /\ result = "Ok"
    /\ pool.last_sequence_number = 2

\* C5: an execute_swap call that finds pool.unlocked false fails with
\* Unauthorized and leaves the pool, the oracle observations and the three
\* histories as they were.
C5_LockedSwapRejected ==
    ~pool.unlocked =>
        \A c \in SwapCalls :
            /\ SwapCall(c).err = "Unauthorized"
            /\ Left(SwapCall(c)) = Held

\* a swap has been refused on a locked pool
C5_Witness ==
    /\ ~pool.unlocked
    /\ result = "Unauthorized"

\* the calls of the liquidity processors the owner can make
LiquidityCalls ==
    [range : Ranges, liquidity_delta : LiquidityDeltas, amounts : AmountLimits]

AddCall(c) ==
    add_liquidity(pool, positions[c.range], ticks[c.range[1]], ticks[c.range[2]],
                  vaults, c.range[1], c.range[2], c.liquidity_delta,
                  c.amounts[1], c.amounts[2])

RemoveCall(c) ==
    remove_liquidity(pool, positions[c.range], ticks[c.range[1]],
                     ticks[c.range[2]], vaults, Owner, c.liquidity_delta,
                     c.amounts[1], c.amounts[2])

\* C6: the pool's lock is held while a swap, add_liquidity or
\* remove_liquidity is in progress and is released on every exit, so an
\* operation started on a pool whose lock is held is rejected with
\* Unauthorized, and between operations the lock is free.
C6_LockDiscipline ==
    /\ ~pool.unlocked =>
          /\ \A c \in SwapCalls : SwapCall(c).err = "Unauthorized"
          /\ \A c \in LiquidityCalls :
                /\ AddCall(c).err = "Unauthorized"
                /\ RemoveCall(c).err = "Unauthorized"
    /\ \A c \in SwapCalls : pool.unlocked => SwapCall(c).pool.unlocked

\* C7: whenever execute_swap returns an error, the pool, the oracle
\* observations and the three histories are what they were before the call.
C7_NoPartialCommit ==
    \A c \in SwapCalls :
        SwapCall(c).err \notin {"Ok", "Panic"} => Left(SwapCall(c)) = Held

\* C8: no step lowers fee_growth_global0_x128 or fee_growth_global1_x128;
\* a swap, whatever it returns, leaves the accumulator of its output token
\* as it was and does not lower the one of its input token; no step other
\* than a swap changes either.
C8_FeeGrowthMonotone ==
    /\ [](\A c \in SwapCalls :
            LET after == SwapCall(c).pool
            IN  /\ after.fee_growth_global0_x128 >= pool.fee_growth_global0_x128
                /\ after.fee_growth_global1_x128 >= pool.fee_growth_global1_x128
                /\ c.zero_for_one =>
                      after.fee_growth_global1_x128 = pool.fee_growth_global1_x128
                /\ ~c.zero_for_one =>
                      after.fee_growth_global0_x128 = pool.fee_growth_global0_x128)
    /\ [][/\ pool'.fee_growth_global0_x128 >= pool.fee_growth_global0_x128
          /\ pool'.fee_growth_global1_x128 >= pool.fee_growth_global1_x128
          /\ (\/ pool'.fee_growth_global0_x128 # pool.fee_growth_global0_x128
              \/ pool'.fee_growth_global1_x128 # pool.fee_growth_global1_x128)
             => result' = "Ok"]_vars

\* a one-for-zero swap has raised the accumulator of token1 and left the
\* one of token0 at its start
C8_Witness ==
    /\ result = "Ok"
    /\ pool.fee_growth_global1_x128 > 0
    /\ pool.fee_growth_global0_x128 = 0

\* C9: in every reachable state the pool's price lies in the price interval
\* of its tick: sqrtRatioAtTick(tick) <= sqrt_price_x96 <
\* sqrtRatioAtTick(tick + 1).
C9_PriceTickConsistency ==
    LET at_tick == get_sqrt_ratio_at_tick(pool.tick)
        at_next == get_sqrt_ratio_at_tick(pool.tick + 1)
    IN  /\ IsOk(at_tick)
        /\ IsOk(at_next)
        /\ at_tick.v <= pool.sqrt_price_x96
        /\ pool.sqrt_price_x96 < at_next.v

\* C10: after a successful swap the pool's price is not beyond the caller's
\* sqrt_price_limit in the direction of the swap, and a swap that ends at
\* the limit has used less than the amount requested.
C10_PriceLimitRespected ==
    \A c \in SwapCalls :
        LET out == SwapCall(c)
        IN  out.err = "Ok" =>
                /\ c.zero_for_one => out.pool.sqrt_price_x96 >= c.sqrt_price_limit
                /\ ~c.zero_for_one => out.pool.sqrt_price_x96 <= c.sqrt_price_limit
                /\ out.pool.sqrt_price_x96 = c.sqrt_price_limit =>
                      out.amount_in < c.amount_in

\* the limit lies strictly on the side of the current price the swap moves to
OnSwapSide(c) ==
    IF c.zero_for_one
    THEN MIN_SQRT_RATIO < c.sqrt_price_limit
            /\ c.sqrt_price_limit < pool.sqrt_price_x96
    ELSE pool.sqrt_price_x96 < c.sqrt_price_limit
            /\ c.sqrt_price_limit < MAX_SQRT_RATIO

\* C11: execute_swap fails with InvalidPrice unless the limit lies strictly
\* on the swap side of the current price: between MIN_SQRT_PRICE and the
\* price for zero_for_one, between the price and MAX_SQRT_PRICE otherwise.
\* The calls are those that reach the check: the pool is unlocked and the
\* price impact is computed.
C11_PriceLimitPrecondition ==
    \A c \in SwapCalls :
        /\ pool.unlocked
        /\ IsOk(calculate_price_impact(pool, c.amount_in, c.zero_for_one))
        /\ ~OnSwapSide(c)
        => SwapCall(c).err = "InvalidPrice"

\* the oracle is enabled, holds two observations inside its window and
\* yields a TWAP
GateArmed ==
    /\ pool.mev_config.oracle_enabled
    /\ Len(oracle_observations) >= 2
    /\ Len(SelectSeq(oracle_observations,
                     LAMBDA o : o.timestamp >=
                        Max(oracle_observations[Len(oracle_observations)].timestamp
                              - pool.mev_config.oracle_window, 0))) >= 2
    /\ IsOk(calculate_twap(oracle_observations, pool.mev_config.oracle_window))
    /\ calculate_twap(oracle_observations, pool.mev_config.oracle_window).v > 0

\* |spot - twap| * 10000 / twap
SpotDeviationBps ==
    LET twap == calculate_twap(oracle_observations, pool.mev_config.oracle_window).v
    IN  (Abs(pool.sqrt_price_x96 - twap) * 10000) \div twap

\* the checks of execute_swap that come before the MEV gate pass
ReachesGate(c) == ReachesOrdering(c) /\ InOrder(c)

\* C12 as stated: with the oracle enabled and two observations in the
\* window, a swap attempted while the spot price deviates from the TWAP by
\* more than max_slippage_bps is rejected with InvalidPrice and nothing is
\* changed; a deviation within max_slippage_bps passes the gate.
C12_DeviationInvalidPrice ==
    GateArmed =>
        IF SpotDeviationBps > pool.mev_config.max_slippage_bps
        THEN \A c \in SwapCalls :
                /\ SwapCall(c).err = "InvalidPrice"
                /\ Left(SwapCall(c)) = Held
        ELSE LET spot == validate_twap_vs_spot(oracle_observations,
                                               pool.sqrt_price_x96, pool.mev_config)
             IN  IsOk(spot) /\ spot.v

\* C12 amended: with the oracle enabled and two observations in the window,
\* a swap attempted while the spot price deviates from the TWAP by more than
\* max_slippage_bps fails and changes nothing, with InvalidPrice when it
\* passes the lock, price-impact, price-limit and ordering checks that come
\* before the gate; a deviation within max_slippage_bps passes the gate.
C12_DeviationRejected ==
    GateArmed =>
        IF SpotDeviationBps > pool.mev_config.max_slippage_bps
        THEN \A c \in SwapCalls :
                /\ SwapCall(c).err # "Ok"
                /\ Left(SwapCall(c)) = Held
                /\ ReachesGate(c) => SwapCall(c).err = "InvalidPrice"
        ELSE LET spot == validate_twap_vs_spot(oracle_observations,
                                               pool.sqrt_price_x96, pool.mev_config)
             IN  IsOk(spot) /\ spot.v

\* a swap that reached the gate has been refused while the spot price was
\* more than max_slippage_bps away from the TWAP
C12_Witness ==
    /\ result = "InvalidPrice"
    /\ GateArmed
    /\ SpotDeviationBps > pool.mev_config.max_slippage_bps
    /\ \E c \in SwapCalls : ReachesGate(c) /\ SwapCall(c).err = "InvalidPrice"

\* C13: with fewer than two oracle observations, or with the oracle
\* disabled, the MEV gate skips its validation: it accepts the swap, and
\* the swap does not fail because of the oracle.
C13_OracleSkip ==
    (Len(oracle_observations) < 2 \/ ~pool.mev_config.oracle_enabled) =>
        \A c \in SwapCalls :
            /\ IsOk(validate_swap_mev_protection(pool, c.zero_for_one,
                    c.sqrt_price_limit, oracle_observations, pool.mev_config))
            /\ SwapCall(c).err # "InvalidOracle"

\* C14: a position that remove_liquidity has brought to liquidity 0 keeps
\* its tokens_owed, and a collect_fees of its owner then succeeds and pays
\* min(requested, tokens_owed) of each token out of what is owed.
C14_OwedSurvivesBurn ==
    \A r \in Ranges, requested \in AmountLimits :
        LET pos == positions[r]
            out == collect_fees(pool, pos, ticks[r[1]], ticks[r[2]], vaults,
                                Owner, requested[1], requested[2])
        IN  pos.exists /\ pos.liquidity = 0 /\ ~pos.is_active /\ requested[1] > 0
               /\ requested[2] > 0 =>
                /\ out.err = "Ok"
                /\ out.position.tokens_owed0
                      = pos.tokens_owed0 - Min(requested[1], pos.tokens_owed0)
                /\ out.position.tokens_owed1
                      = pos.tokens_owed1 - Min(requested[2], pos.tokens_owed1)

\* the position after a fee poke followed by the liquidity change delta:
\* tokens_owed credited with the old liquidity times the growth since the
\* last snapshot, and the snapshot moved to the current growth (the
\* processors take the global accumulators as the growth inside the range)
Poked(pos, delta) ==
    [pos EXCEPT
       !.tokens_owed0 = saturating_add(@,
            (pos.liquidity
               * (pool.fee_growth_global0_x128 - pos.fee_growth_inside0_last_x128))
            \div U128_MOD),
       !.tokens_owed1 = saturating_add(@,
            (pos.liquidity
               * (pool.fee_growth_global1_x128 - pos.fee_growth_inside1_last_x128))
            \div U128_MOD),
       !.liquidity = @ + delta,
       !.fee_growth_inside0_last_x128 = pool.fee_growth_global0_x128,
       !.fee_growth_inside1_last_x128 = pool.fee_growth_global1_x128]

\* C15: every successful add_liquidity or remove_liquidity credits the
\* position's tokens_owed with its old liquidity times the fee growth since
\* its last snapshot, then changes the liquidity, then moves the snapshot to
\* the current fee growth.
C15_FeePoke ==
    \A c \in LiquidityCalls :
        LET pos == positions[c.range]
            added == AddCall(c)
            removed == RemoveCall(c)
            same(a, b) ==
                /\ a.tokens_owed0 = b.tokens_owed0
                /\ a.tokens_owed1 = b.tokens_owed1
                /\ a.liquidity = b.liquidity
                /\ a.fee_growth_inside0_last_x128 = b.fee_growth_inside0_last_x128
                /\ a.fee_growth_inside1_last_x128 = b.fee_growth_inside1_last_x128
        IN  /\ added.err = "Ok" =>
                  same(added.position, Poked(pos, c.liquidity_delta))
            /\ removed.err = "Ok" =>
                  same(removed.position, Poked(pos, -c.liquidity_delta))

\* C16: on an existing position, remove_liquidity called by an account other
\* than the owner fails with Unauthorized, and called by the owner with
\* liquidity_delta 0 or above the position's liquidity it fails with
\* InsufficientLiquidity; either way the pool, the position, the two ticks
\* and the vaults stay as they were, and no position's liquidity is ever
\* below zero.
C16_RemoveGuards ==
    /\ \A r \in Ranges : positions[r].liquidity >= 0
    /\ \A c \in LiquidityCalls, signer \in Signers :
          LET pos == positions[c.range]
              out == remove_liquidity(pool, pos, ticks[c.range[1]],
                                      ticks[c.range[2]], vaults, signer,
                                      c.liquidity_delta, c.amounts[1], c.amounts[2])
              rejected(e) ==
                  /\ out.err = e
                  /\ out.pool = pool
                  /\ out.position = pos
                  /\ out.tick_lower = ticks[c.range[1]]
                  /\ out.tick_upper = ticks[c.range[2]]
                  /\ out.vaults = vaults
          IN  pos.exists =>
                /\ signer # pos.owner => rejected("Unauthorized")
                /\ (signer = pos.owner
                      /\ (c.liquidity_delta = 0 \/ c.liquidity_delta > pos.liquidity))
                   => rejected("InsufficientLiquidity")

\* a position holds liquidity, so that a stranger's removal is refused, and
\* another has been burnt to zero, so that the owner's removal of more than
\* it holds is refused
C16_Witness ==
    \E r, q \in Ranges :
        /\ positions[r].exists /\ positions[r].liquidity > 0
        /\ remove_liquidity(pool, positions[r], ticks[r[1]], ticks[r[2]], vaults,
                            "mallory", positions[r].liquidity, 0, 0).err
              = "Unauthorized"
        /\ positions[q].exists /\ positions[q].liquidity = 0
        /\ remove_liquidity(pool, positions[q], ticks[q[1]], ticks[q[2]], vaults,
                            Owner, 4, 0, 0).err
              = "InsufficientLiquidity"

\* C17: add_liquidity succeeds only when the amounts required for the
\* requested liquidity, as full-width integers, are within amount_0_max and
\* amount_1_max, and it then moves exactly those amounts into the vaults; a
\* call that passes the earlier checks with a required amount above its
\* maximum fails with InsufficientLiquidity.
C17_AmountCap ==
    \A c \in LiquidityCalls :
        LET required == calculate_amounts_for_liquidity(pool, c.range[1],
                            c.range[2], c.liquidity_delta, TRUE)
            out == AddCall(c)
        IN  /\ out.err = "Ok" =>
                  /\ IsOk(required)
                  /\ required.v.amount_0 <= c.amounts[1]
                  /\ required.v.amount_1 <= c.amounts[2]
                  /\ out.vaults.a - vaults.a = required.v.amount_0
                  /\ out.vaults.b - vaults.b = required.v.amount_1
            /\ (/\ c.liquidity_delta # 0
                /\ validate_tick_range(pool, c.range[1], c.range[2])
                /\ IsOk(required)
                /\ (required.v.amount_0 > c.amounts[1]
                      \/ required.v.amount_1 > c.amounts[2]))
               => out.err = "InsufficientLiquidity"

\* ------------------------------------------------------------------------
\* Pool::validate_tick_range on drawn ranges: a pool of a drawn tick spacing
\* and one drawn range, to which add_liquidity is applied
\* ------------------------------------------------------------------------
TickSpacings == {1, 60}
RangeTicks == {-887280, -887272, -887220, -60, -50, 60, 887220, 887272, 887280}

InitRange ==
    \E spacing \in TickSpacings, price \in InitialPrices, fee \in InitialFees,
       tick_lower \in RangeTicks, tick_upper \in RangeTicks :
        /\ pool = PoolNew(PoolMints[1], PoolMints[2], fee, spacing, price).v
        /\ positions = [r \in {<< tick_lower, tick_upper >>} |-> NoPosition]
        /\ ticks = [t \in {tick_lower, tick_upper} |-> NoTick]
        /\ vaults = [a |-> 0, b |-> 0]
        /\ oracle_observations = << >>
        /\ price_history = << >>
        /\ volume_history = << >>
        /\ impact_history = << >>
        /\ args = << >>
        /\ result = "None"

\* processor::add_liquidity::process on the drawn range; result keeps what
\* the call returned
AddLiquidityDrawn ==
    \E r \in DOMAIN positions, liquidity_delta \in LiquidityDeltas,
       amount_max \in AmountLimits :
        /\ LET out == add_liquidity(pool, positions[r], ticks[r[1]], ticks[r[2]],
                                    vaults, r[1], r[2], liquidity_delta,
                                    amount_max[1], amount_max[2])
           IN  Commit(r, out) /\ result' = out.err
        /\ UNCHANGED << args, oracle_observations, price_history, volume_history,
                        impact_history >>

SpecRange == InitRange /\ [][AddLiquidityDrawn]_vars

\* x rounded down and up to a multiple of spacing
FloorTo(x, spacing) == (x \div spacing) * spacing
CeilTo(x, spacing) == -(((-x) \div spacing) * spacing)

\* add_liquidity on range r with a rejected range fails with InvalidTickRange
\* for each of the given liquidity deltas, and leaves every account as it was
RejectedRangeFails(r, deltas) ==
    ~validate_tick_range(pool, r[1], r[2]) =>
        \A liquidity_delta \in deltas, amount_max \in AmountLimits :
            LET out == add_liquidity(pool, positions[r], ticks[r[1]], ticks[r[2]],
                                     vaults, r[1], r[2], liquidity_delta,
                                     amount_max[1], amount_max[2])
            IN  /\ out.err = "InvalidTickRange"
                /\ out.pool = pool
                /\ out.position = positions[r]
                /\ out.tick_lower = ticks[r[1]]
                /\ out.tick_upper = ticks[r[2]]
                /\ out.vaults = vaults

\* C18 as stated: validate_tick_range(L, U) accepts exactly when L < U, both
\* are multiples of tick_spacing, L is at least MIN_TICK rounded down to the
\* spacing and U at most MAX_TICK rounded up to it; add_liquidity with a
\* rejected range fails with InvalidTickRange and changes no state.
C18_RangeFloorCeil ==
    \A r \in DOMAIN positions :
        /\ validate_tick_range(pool, r[1], r[2])
              <=> /\ r[1] < r[2]
                  /\ r[1] % pool.tick_spacing = 0
                  /\ r[2] % pool.tick_spacing = 0
                  /\ r[1] >= FloorTo(MIN_TICK, pool.tick_spacing)
                  /\ r[2] <= CeilTo(MAX_TICK, pool.tick_spacing)
        /\ RejectedRangeFails(r, LiquidityDeltas)

\* C18 amended: validate_tick_range(L, U) accepts exactly when L < U, both
\* are multiples of tick_spacing, L is at least MIN_TICK rounded up to the
\* spacing and U at most MAX_TICK rounded down to it (the bounds lie inside
\* [MIN_TICK, MAX_TICK]); add_liquidity with a non-zero liquidity_delta and
\* a rejected range fails with InvalidTickRange and changes no state.
C18_RangeInsideBounds ==
    \A r \in DOMAIN positions :
        /\ validate_tick_range(pool, r[1], r[2])
              <=> /\ r[1] < r[2]
                  /\ r[1] % pool.tick_spacing = 0
                  /\ r[2] % pool.tick_spacing = 0
                  /\ r[1] >= CeilTo(MIN_TICK, pool.tick_spacing)
                  /\ r[2] <= FloorTo(MAX_TICK, pool.tick_spacing)
        /\ RejectedRangeFails(r, LiquidityDeltas \ {0})

\* add_liquidity has refused a spaced range whose lower tick lies between
\* MIN_TICK rounded down and MIN_TICK rounded up to the spacing
C18_Witness ==
    /\ result = "InvalidTickRange"
    /\ \E r \in DOMAIN positions :
          /\ r[1] < r[2]
          /\ r[1] % pool.tick_spacing = 0
          /\ r[2] % pool.tick_spacing = 0
          /\ r[1] >= FloorTo(MIN_TICK, pool.tick_spacing)
          /\ r[1] < CeilTo(MIN_TICK, pool.tick_spacing)
          /\ r[2] <= FloorTo(MAX_TICK, pool.tick_spacing)


\* ------------------------------------------------------------------------
\* Pool creation: initialize_pool on a pool account that holds no data
\* ------------------------------------------------------------------------
Mints == {1, 2, 3}
FeeInputs == {0, 1, 10000, 10001}
SpacingInputs == {0, 1, 60, 1000, 1001}
PriceInputs == {0, 3, 4, 100, 255}

\* processor::initialize_pool::process with well-formed accounts: the checks
\* of the fee, the spacing and the price, the creation of the pool account
\* (refused by the system program when the account is in use), Pool::new,
\* Pool::is_valid and the write of the account.  initial_sqrt_price_x96 is
\* a u128.
initialize_pool(pool_account, token_a_mint, token_b_mint, fee, tick_spacing, initial_sqrt_price_x96) ==
    LET rejected(e) == [err |-> e, pool |-> pool_account]
        created == PoolNew(token_a_mint, token_b_mint, fee, tick_spacing,
                           initial_sqrt_price_x96 % U128_MOD)
    IN  IF fee > 10000 THEN rejected("InvalidPrice")
        ELSE IF tick_spacing = 0 \/ tick_spacing > 1000
        THEN rejected("InvalidTickRange")
        ELSE IF initial_sqrt_price_x96 % U128_MOD = 0
        THEN rejected("InvalidPrice")
        ELSE IF pool_account # Uninitialized
        THEN rejected("AccountAlreadyInUse")
        ELSE IF ~IsOk(created) THEN rejected("InvalidPrice")
        ELSE IF ~is_valid(created.v) THEN rejected("InvalidAccount")
        ELSE [err |-> "Ok", pool |-> created.v]

InitCreate ==
    /\ pool = Uninitialized
    /\ positions = [r \in Ranges |-> NoPosition]
    /\ ticks = [t \in TickIndices |-> NoTick]
    /\ vaults = [a |-> 0, b |-> 0]
    /\ oracle_observations = << >>
    /\ price_history = << >>
    /\ volume_history = << >>
    /\ impact_history = << >>
    /\ args = << >>
    /\ result = "None"

\* the InitializePool instruction; result keeps what the call returned
InitializePool ==
    \E token_a_mint \in Mints, token_b_mint \in Mints, fee \in FeeInputs,
       tick_spacing \in SpacingInputs, initial_sqrt_price_x96 \in PriceInputs :
        /\ LET out == initialize_pool(pool, token_a_mint, token_b_mint, fee,
                                      tick_spacing, initial_sqrt_price_x96)
           IN  pool' = out.pool /\ result' = out.err
        /\ UNCHANGED << args, positions, ticks, vaults, oracle_observations,
                        price_history, volume_history, impact_history >>

SpecCreate == InitCreate /\ [][InitializePool]_vars

\* C19: every pool that initialize_pool writes has token_a < token_b in
\* whichever order the mints were supplied, fee in [1, 10000], tick_spacing
\* in [1, 1000], liquidity 0, unlocked true, last_sequence_number 0 and
\* tick = get_tick_at_sqrt_ratio(initial_sqrt_price_x96); inputs outside the
\* fee or spacing bounds or with a price outside [MIN_SQRT_RATIO,
\* MAX_SQRT_RATIO) are rejected and the pool account is left as it was.
C19_PoolCreation ==
    \A token_a_mint \in Mints, token_b_mint \in Mints, fee \in FeeInputs,
       tick_spacing \in SpacingInputs, initial_sqrt_price_x96 \in PriceInputs :
        LET out == initialize_pool(pool, token_a_mint, token_b_mint, fee,
                                   tick_spacing, initial_sqrt_price_x96)
            swapped == initialize_pool(pool, token_b_mint, token_a_mint, fee,
                                       tick_spacing, initial_sqrt_price_x96)
        IN  /\ out.err = "Ok" =>
                /\ out.pool.token_a < out.pool.token_b
                /\ swapped = out
                /\ out.pool.fee \in 1..10000
                /\ out.pool.tick_spacing \in 1..1000
                /\ out.pool.liquidity = 0
                /\ out.pool.unlocked
                /\ out.pool.last_sequence_number = 0
                /\ out.pool.tick
                     = get_tick_at_sqrt_ratio(initial_sqrt_price_x96).v
            /\ (\/ fee \notin 1..10000
                \/ tick_spacing \notin 1..1000
                \/ initial_sqrt_price_x96 < MIN_SQRT_RATIO
                \/ initial_sqrt_price_x96 >= MAX_SQRT_RATIO)
               => out.err # "Ok" /\ out.pool = pool


\* ------------------------------------------------------------------------
\* The Swap instruction of the program
\* ------------------------------------------------------------------------
MinimumAmountsOut == {0, 1}

\* a faulty settlement that skips the checks of the output and of the
\* price impact
swap_settle_unchecked(p, v, minimum_amount_out, zero_for_one, price_impact, out) ==
    LET amount_in == low_u64(low_u128(out.amount_in))
        amount_out == low_u64(low_u128(out.amount_out))
        paid == IF zero_for_one THEN v.b ELSE v.a
    IN  IF out.err # "Ok" THEN [err |-> out.err, pool |-> p, vaults |-> v]
        ELSE IF paid < amount_out
        THEN [err |-> "InsufficientFunds", pool |-> p, vaults |-> v]
        ELSE [err |-> "Ok", pool |-> out.pool,
              vaults |-> IF zero_for_one
                         THEN [a |-> v.a + amount_in, b |-> v.b - amount_out]
                         ELSE [a |-> v.a - amount_out, b |-> v.b + amount_in]]

\* processor::swap::process from the call of execute_swap on, for the
\* direction zero_for_one: the checks of the output and of the price impact,
\* the write of the pool and transfer_tokens, whose transfer out of a vault
\* fails when the vault holds less
swap_settle(p, v, minimum_amount_out, zero_for_one, price_impact, out) ==
    LET amount_in == low_u64(low_u128(out.amount_in))
        amount_out == low_u64(low_u128(out.amount_out))
        paid == IF zero_for_one THEN v.b ELSE v.a
    IN  IF out.err # "Ok" THEN [err |-> out.err, pool |-> p, vaults |-> v]
        ELSE IF out.amount_out < minimum_amount_out
        THEN [err |-> "InsufficientLiquidity", pool |-> p, vaults |-> v]
        ELSE IF price_impact.v > 100
        THEN [err |-> "InvalidPrice", pool |-> p, vaults |-> v]
        ELSE IF paid < amount_out
        THEN [err |-> "InsufficientFunds", pool |-> p, vaults |-> v]
        ELSE [err |-> "Ok", pool |-> out.pool,
              vaults |-> IF zero_for_one
                         THEN [a |-> v.a + amount_in, b |-> v.b - amount_out]
                         ELSE [a |-> v.a - amount_out, b |-> v.b + amount_in]]

\* processor::swap::process below the choice of the direction: execute_swap
\* on empty histories and an empty oracle buffer, at timestamp 1000 with
\* sequence number 1
swap_directed(p, v, amount_in, minimum_amount_out, sqrt_price_limit, zero_for_one, overflow_checks) ==
    swap_settle(p, v, minimum_amount_out, zero_for_one,
                calculate_price_impact(p, amount_in, zero_for_one),
                execute_swap(p, amount_in, zero_for_one, sqrt_price_limit,
                             << >>, << >>, << >>, << >>, 1000, 1,
                             overflow_checks))

\* processor::swap::process: the direction is fixed to token0 -> token1
swap_process(p, v, amount_in, minimum_amount_out, sqrt_price_limit, overflow_checks) ==
    swap_directed(p, v, amount_in, minimum_amount_out, sqrt_price_limit, TRUE,
                  overflow_checks)

\* processor::process on CLMMInstruction::Swap: the dispatcher does not
\* hand zero_for_one on
process_Swap(p, v, amount_in, minimum_amount_out, sqrt_price_limit, zero_for_one, overflow_checks) ==
    swap_process(p, v, amount_in, minimum_amount_out, sqrt_price_limit,
                 overflow_checks)

\* the Swap instructions a user can send in the current state
SwapInstructions ==
    {c \in [amount_in : AmountsIn, minimum_amount_out : MinimumAmountsOut,
            sqrt_price_limit : SqrtPriceLimits, zero_for_one : BOOLEAN,
            overflow_checks : BOOLEAN] :
        c.overflow_checks \/ 1000 < pool.last_fee_adjustment}

\* what the program returns and leaves behind for the instruction c
SwapInstruction(c) ==
    process_Swap(pool, vaults, c.amount_in, c.minimum_amount_out,
                 c.sqrt_price_limit, c.zero_for_one, c.overflow_checks)

\* the Swap instruction; result keeps the status
Swap ==
    \E c \in SwapInstructions :
        /\ pool # Uninitialized
        /\ LET out == SwapInstruction(c)
           IN  pool' = out.pool /\ vaults' = out.vaults /\ result' = out.err
        /\ UNCHANGED << args, positions, ticks, oracle_observations, price_history,
                        volume_history, impact_history >>

\* the instructions of the program.  CollectFees is left out: no Swap
\* instruction executes a swap, so no fee accrues and a collection leaves
\* every account as it was.
ProgramNext ==
    \/ InitializePool
    \/ Swap
    \/ AddLiquidity
    \/ RemoveLiquidity

SpecProgram == InitCreate /\ [][ProgramNext]_vars

\* C20: the Swap instruction is processed in the direction it names: it
\* returns and leaves behind what swap::process does for the instruction's
\* zero_for_one, and when it succeeds with zero_for_one = false the price
\* does not fall, vault B receives the input and vault A pays the output,
\* and with zero_for_one = true the price does not rise, vault A receives
\* the input and vault B pays the output.
C20_SwapDirection ==
    \A c \in SwapInstructions :
        LET out == SwapInstruction(c)
        IN  pool # Uninitialized =>
            /\ out = swap_directed(pool, vaults, c.amount_in,
                                   c.minimum_amount_out, c.sqrt_price_limit,
                                   c.zero_for_one, c.overflow_checks)
            /\ out.err = "Ok" =>
                 IF c.zero_for_one
                 THEN /\ out.pool.sqrt_price_x96 <= pool.sqrt_price_x96
                      /\ out.vaults.a >= vaults.a
                      /\ out.vaults.b <= vaults.b
                 ELSE /\ out.pool.sqrt_price_x96 >= pool.sqrt_price_x96
                      /\ out.vaults.b >= vaults.b
                      /\ out.vaults.a <= vaults.a

\* ------------------------------------------------------------------------
\* The settlement of swap::process on the swaps execute_swap carries out
\* ------------------------------------------------------------------------
\* the call c is carried out by execute_swap and fails the check of the
\* minimum output m or of the price impact cap
Slipped(c, m) ==
    /\ SwapCall(c).err = "Ok"
    /\ \/ SwapCall(c).amount_out < m
       \/ calculate_price_impact(pool, c.amount_in, c.zero_for_one).v > 100

\* C21: when the executed swap's amount_out is below minimum_amount_out or
\* its price impact is above the cap, swap::process returns an error, keeps
\* the pool account as it was (price, tick, fee growth, last_sequence_number)
\* and moves no token.
C21_SlippageRejection ==
    \A c \in SwapCalls, m \in MinimumAmountsOut :
        Slipped(c, m) =>
            LET settled == swap_settle(pool, vaults, m, c.zero_for_one,
                               calculate_price_impact(pool, c.amount_in,
                                                      c.zero_for_one),
                               SwapCall(c))
            IN  /\ settled.err # "Ok"
                /\ settled.pool = pool
                /\ settled.vaults = vaults

C21_Witness ==
    /\ \E c \in SwapCalls :
          /\ Slipped(c, 1)
          /\ SwapCall(c).pool # pool
          /\ SwapCall(c).amount_out = 0
    /\ \E c \in SwapCalls :
          /\ Slipped(c, 1)
          /\ SwapCall(c).amount_out >= 1

\* ------------------------------------------------------------------------
\* Collection of what a position is owed
\* ------------------------------------------------------------------------
CollectRequests == {0, 1, 2, 15}

\* what the position of range r is owed once collect_fees has added the
\* accrued fees
OwedAtCollect(r) ==
    LET accrued == calculate_accrued_fees(pool, positions[r])
    IN  add_tokens_owed(positions[r], accrued.v.fees_0, accrued.v.fees_1)

MintCall(r, liquidity_delta, amount_max) ==
    add_liquidity(pool, positions[r], ticks[r[1]], ticks[r[2]], vaults,
                  r[1], r[2], liquidity_delta, amount_max[1], amount_max[2])

\* remove_liquidity of liquidity_delta by the owner on what the mint left
BurnAfter(mint, liquidity_delta) ==
    remove_liquidity(mint.pool, mint.position, mint.tick_lower, mint.tick_upper,
                     mint.vaults, Owner, liquidity_delta, 0, 0)

\* the principal amounts the processors compute for range r, as the u64
\* they pay: rounded up for the mint, down for the burn
Principal(p, r, liquidity_delta, round_up) ==
    LET amounts == calculate_amounts_for_liquidity(p, r[1], r[2],
                                                   liquidity_delta, round_up)
    IN  << low_u64(amounts.v.amount_0), low_u64(amounts.v.amount_1) >>

\* C23: when add_liquidity of dL is followed at once by remove_liquidity of
\* dL on the same range, each principal amount the burn returns is at most
\* the amount the mint paid and is less than it by at most 1 unit.
C23_MintBurnIdentity ==
    \A r \in Ranges, liquidity_delta \in LiquidityDeltas,
       amount_max \in AmountLimits :
        LET mint == MintCall(r, liquidity_delta, amount_max)
            paid == Principal(pool, r, liquidity_delta, TRUE)
            returned == Principal(mint.pool, r, liquidity_delta, FALSE)
        IN  mint.err = "Ok" /\ BurnAfter(mint, liquidity_delta).err = "Ok" =>
              /\ mint.vaults.a - vaults.a = paid[1]
              /\ mint.vaults.b - vaults.b = paid[2]
              /\ returned[1] <= paid[1] /\ paid[1] - returned[1] <= 1
              /\ returned[2] <= paid[2] /\ paid[2] - returned[2] <= 1

C23_Witness ==
    \E r \in Ranges, amount_max \in AmountLimits :
        LET mint == MintCall(r, 4, amount_max)
            paid == Principal(pool, r, 4, TRUE)
            returned == Principal(mint.pool, r, 4, FALSE)
        IN  /\ mint.err = "Ok" /\ BurnAfter(mint, 4).err = "Ok"
            /\ paid[1] - returned[1] = 1 /\ returned[1] > 0
            /\ paid[2] - returned[2] = 1 /\ returned[2] > 0

\* ------------------------------------------------------------------------
\* Pure functions on drawn arguments
\* ------------------------------------------------------------------------
\* a state that holds one drawn tuple of arguments and no pool
InitArgs(drawn) ==
    /\ args \in drawn
    /\ pool = Uninitialized
    /\ positions = [r \in Ranges |-> NoPosition]
    /\ ticks = [t \in TickIndices |-> NoTick]
    /\ vaults = [a |-> 0, b |-> 0]
    /\ oracle_observations = << >>
    /\ price_history = << >>
    /\ volume_history = << >>
    /\ impact_history = << >>
    /\ result = "None"

\* FixedPointMath::mul_div: the quotient is put together from the u128
\* halves of x, y and the denominator.  A u128 product or sum that leaves
\* the word panics when the build checks overflow and wraps otherwise; a
\* division by a half that is 0 panics in every build.
mul_div(x, y, denominator, overflow_checks) ==
    LET x_u128 == low_u128(x)
        y_u128 == low_u128(y)
        denominator_u128 == low_u128(denominator)
        x_high == low_u128(x \div U128_MOD)
        y_high == low_u128(y \div U128_MOD)
        denominator_high == low_u128(denominator \div U128_MOD)
        result_low == ((x_u128 * y_u128) % U128_MOD) \div denominator_u128
        cross_term1 == ((x_u128 * y_high) % U128_MOD) \div denominator_u128
        cross_term2 == ((x_high * y_u128) % U128_MOD) \div denominator_u128
        cross_term3 == ((x_high * y_high) % U128_MOD) \div denominator_high
        result_high == cross_term1 + cross_term2 + cross_term3
        overflows == \/ x_u128 * y_u128 >= U128_MOD
                     \/ x_u128 * y_high >= U128_MOD
                     \/ x_high * y_u128 >= U128_MOD
                     \/ x_high * y_high >= U128_MOD
                     \/ result_high >= U128_MOD
    IN  IF denominator = 0 THEN Err("MathOverflow")
        ELSE IF denominator_u128 = 0 \/ denominator_high = 0 THEN Err("Panic")
        ELSE IF overflow_checks /\ overflows THEN Err("Panic")
        ELSE Ok(result_low + (result_high % U128_MOD) * U128_MOD)

MulDivArgs == {0, 1, 10, 20, 255, 256, 1000} \X {0, 1, 10, 20, 255, 256, 1000}
                \X {0, 1, 100, 256, 257, 1000}

\* one call of mul_div on the drawn arguments; result keeps its status
MulDiv ==
    /\ result = "None"
    /\ \E overflow_checks \in BOOLEAN :
          result' = mul_div(args[1], args[2], args[3], overflow_checks).err
    /\ UNCHANGED << args, pool, positions, ticks, vaults, oracle_observations,
                    price_history, volume_history, impact_history >>

SpecMulDiv == InitArgs(MulDivArgs) /\ [][MulDiv]_vars

\* C24: for d > 0 and a quotient x * y / d that fits the word, mul_div(x, y,
\* d) returns its floor (mul_div(10, 20, 100) = 2 at the model's word size,
\* the counterpart of mul_div(100, 200, 1000) = 20); for d = 0 it returns
\* MathOverflow.
C24_MulDivCorrect ==
    \A overflow_checks \in BOOLEAN :
        LET x == args[1]
            y == args[2]
            d == args[3]
            out == mul_div(x, y, d, overflow_checks)
        IN  /\ d = 0 => out = Err("MathOverflow")
            /\ d > 0 /\ (x * y) \div d <= U256_MAX => out = Ok((x * y) \div d)

\* C25: a successful swap appends exactly one observation, with its
\* timestamp and the price, tick and liquidity the swap left, at the back
\* of the observation queue; the queue never holds more than 100
\* observations; for any capacity update_oracle_observations keeps the
\* newest observations in call order and evicts the oldest first.
C25_OracleRing ==
    /\ Len(oracle_observations) <= MAX_OBSERVATIONS
    /\ \A c \in SwapCalls :
         LET out == SwapCall(c)
             appended == Append(oracle_observations,
                                [timestamp |-> c.current_timestamp,
                                 price |-> out.pool.sqrt_price_x96,
                                 tick |-> out.pool.tick,
                                 liquidity |-> out.pool.liquidity])
         IN  out.err = "Ok" =>
               /\ Len(out.oracle_observations) <= MAX_OBSERVATIONS
               /\ Len(appended) <= MAX_OBSERVATIONS
                    => out.oracle_observations = appended
    /\ \A max_observations \in 1..3, current_time \in OracleTimes :
         LET appended == Append(oracle_observations,
                                [timestamp |-> current_time,
                                 price |-> pool.sqrt_price_x96,
                                 tick |-> pool.tick,
                                 liquidity |-> pool.liquidity])
             kept == update_oracle_observations(oracle_observations, pool,
                                                current_time, max_observations)
         IN  /\ Len(kept) = Min(Len(appended), max_observations)
             /\ \A i \in 1..Len(kept) :
                  kept[i] = appended[Len(appended) - Len(kept) + i]

C25_Witness ==
    /\ Len(oracle_observations) >= 3
    /\ \E c \in SwapCalls :
         /\ SwapCall(c).err = "Ok"
         /\ Len(SwapCall(c).oracle_observations) = Len(oracle_observations) + 1

\* ------------------------------------------------------------------------
\* MevProtectionEngine::process_batch_auction on drawn queues
\* ------------------------------------------------------------------------
MaxPending == 3

\* the while loop of process_batch_auction: the front entry is moved to
\* executed while it is old enough, and the loop ends at the first entry
\* that is not
RECURSIVE BatchLoop(_, _, _, _)
BatchLoop(pending_swaps, executed_swaps, current_time, config) ==
    IF pending_swaps = << >> THEN [executed |-> executed_swaps, pending |-> << >>]
    ELSE IF Max(current_time - Head(pending_swaps).timestamp, 0) >= config.batch_window
    THEN BatchLoop(Tail(pending_swaps), Append(executed_swaps, Head(pending_swaps)),
                   current_time, config)
    ELSE [executed |-> executed_swaps, pending |-> pending_swaps]

\* process_batch_auction: what it returns and what it leaves in the queue
process_batch_auction(pending_swaps, current_time, config) ==
    IF ~config.batch_auction_enabled
    THEN [executed |-> << >>, pending |-> pending_swaps]
    ELSE BatchLoop(pending_swaps, << >>, current_time, config)

\* queues of up to MaxPending entries in any order of their timestamps, a
\* clock reading, and the batch_auction_enabled flag of the configuration
BatchArgs ==
    { [i \in DOMAIN ts |-> [timestamp |-> ts[i], sequence_number |-> i]] :
        ts \in UNION { [1..n -> {0, 50, 90}] : n \in 0..MaxPending } }
      \X {60, 100} \X BOOLEAN

\* one call of process_batch_auction; the queue keeps what the call left
ProcessBatchAuction ==
    /\ LET out == process_batch_auction(
                      args[1], args[2],
                      [default_config EXCEPT !.batch_auction_enabled = args[3]])
       IN  args' = << out.pending, args[2], args[3] >>
    /\ result' = "Ok"
    /\ UNCHANGED << pool, positions, ticks, vaults, oracle_observations,
                    price_history, volume_history, impact_history >>

SpecBatch == InitArgs(BatchArgs) /\ [][ProcessBatchAuction]_vars

\* C26: with batch auctions enabled process_batch_auction(pending, now)
\* returns exactly the pending entries with now - entry.timestamp >=
\* batch_window and leaves exactly the other entries in the queue, whatever
\* the queue holds and in whatever order; with batch auctions disabled it
\* returns nothing and leaves the queue as it was.
C26_BatchEligibility ==
    LET config == [default_config EXCEPT !.batch_auction_enabled = args[3]]
        out == process_batch_auction(args[1], args[2], config)
        eligible(entry) == args[2] - entry.timestamp >= config.batch_window
        waiting(entry) == ~eligible(entry)
    IN  IF config.batch_auction_enabled
        THEN /\ out.executed = SelectSeq(args[1], eligible)
             /\ out.pending = SelectSeq(args[1], waiting)
        ELSE /\ out.executed = << >>
             /\ out.pending = args[1]

\* ------------------------------------------------------------------------
\* The liquidity of the ticks
\* ------------------------------------------------------------------------
\* C27: each tick's liquidity_gross is the sum of the liquidities of the
\* positions that have the tick as lower or upper endpoint, and a mint of dL
\* followed by a burn of dL leaves liquidity_gross and liquidity_net of both
\* endpoint ticks as they were before the mint.
C27_TickGross ==
    LET RECURSIVE GrossOf(_, _)
        GrossOf(t, rs) ==
            IF rs = {} THEN 0
            ELSE LET r == CHOOSE x \in rs : TRUE
                 IN  (IF positions[r].exists /\ (r[1] = t \/ r[2] = t)
                      THEN positions[r].liquidity ELSE 0)
                     + GrossOf(t, rs \ {r})
    IN  /\ \A t \in TickIndices : ticks[t].liquidity_gross = GrossOf(t, Ranges)
        /\ \A r \in Ranges, amount_max \in AmountLimits :
             LET mint == MintCall(r, 4, amount_max)
                 burn == BurnAfter(mint, 4)
             IN  mint.err = "Ok" /\ burn.err = "Ok" /\ ticks[r[1]].exists
                   /\ ticks[r[2]].exists =>
                   /\ burn.tick_lower.liquidity_gross = ticks[r[1]].liquidity_gross
                   /\ burn.tick_upper.liquidity_gross = ticks[r[2]].liquidity_gross
                   /\ burn.tick_lower.liquidity_net = ticks[r[1]].liquidity_net
                   /\ burn.tick_upper.liquidity_net = ticks[r[2]].liquidity_net

\* C28: an update of a tick by the liquidity delta d adds d to liquidity_net
\* when the tick is the lower endpoint (upper = false) and subtracts d when
\* it is the upper endpoint (upper = true), and the sum of liquidity_net
\* over the ticks at or below pool.tick is pool.liquidity.
C28_TickNetSign ==
    LET RECURSIVE NetUpTo(_)
        NetUpTo(ts) ==
            IF ts = {} THEN 0
            ELSE LET t == CHOOSE x \in ts : TRUE
                 IN  I256Add(IF t <= pool.tick THEN ticks[t].liquidity_net ELSE 0,
                             NetUpTo(ts \ {t}))
    IN  /\ \A t \in TickIndices, d \in LiquidityDeltas :
             LET lower == Tick_update_liquidity(ticks[t], d, FALSE)
                 upper == Tick_update_liquidity(ticks[t], d, TRUE)
             IN  /\ IsOk(lower) =>
                      lower.v.liquidity_net = I256Add(ticks[t].liquidity_net, d)
                 /\ IsOk(upper) =>
                      upper.v.liquidity_net = I256Sub(ticks[t].liquidity_net, d)
        /\ NetUpTo(TickIndices) = pool.liquidity

\* C29: on a fresh tick (one no position has used, as Tick::new leaves it)
\* update_liquidity(d1, upper = true) with d1 > 0 marks
\* the tick initialized and gives liquidity_net = d1 and liquidity_gross =
\* d1; a following update_liquidity(d2, upper = false) gives liquidity_net =
\* d1 - d2 and liquidity_gross = d1 + d2.
C29_TickUpdateAsTested ==
    \A t \in TickIndices, d1 \in LiquidityDeltas \ {0}, d2 \in LiquidityDeltas :
        LET fresh == IF ticks[t].exists THEN ticks[t] ELSE TickNew
            first == Tick_update_liquidity(fresh, d1, TRUE)
            second == Tick_update_liquidity(first.v, d2, FALSE)
        IN  fresh = TickNew =>
            /\ IsOk(first)
            /\ first.v.initialized
            /\ first.v.liquidity_net = d1
            /\ first.v.liquidity_gross = d1
            /\ IsOk(second)
            /\ second.v.liquidity_net = I256Sub(d1, d2)
            /\ second.v.liquidity_gross = d1 + d2

\* C30: for every price range and liquidity the amounts of a mint
\* (round_up = true) are the exact token amounts rounded up and the amounts
\* of a burn (round_up = false) are the exact amounts rounded down, for
\* get_amount0_delta (exact L * Q96 * (b - a) / (a * b)) and for
\* get_amount1_delta (exact L * (b - a) / Q96); a burn never returns more
\* than the exact amount.
C30_RoundingDirection ==
    \A r \in Ranges, liquidity \in LiquidityDeltas \ {0} :
        LET ends == { get_sqrt_ratio_at_tick(r[1]).v,
                      get_sqrt_ratio_at_tick(r[2]).v, pool.sqrt_price_x96 }
        IN  \A a \in ends, b \in ends :
              LET n0 == liquidity * Q96 * (b - a)
                  d0 == a * b
                  n1 == liquidity * (b - a)
                  mint0 == get_amount0_delta(a, b, liquidity, TRUE)
                  burn0 == get_amount0_delta(a, b, liquidity, FALSE)
                  mint1 == get_amount1_delta(a, b, liquidity, TRUE)
                  burn1 == get_amount1_delta(a, b, liquidity, FALSE)
              IN  0 < a /\ a < b =>
                    /\ IsOk(mint0) => mint0.v = (n0 + d0 - 1) \div d0
                    /\ IsOk(burn0) => burn0.v = n0 \div d0
                    /\ IsOk(mint1) => mint1.v = (n1 + Q96 - 1) \div Q96
                    /\ IsOk(burn1) => burn1.v = n1 \div Q96

\* C31: the step loop of execute_swap terminates for every input, having
\* used at most the amount requested, and a swap whose step cannot make
\* progress (amount_in_step = 0, as with zero active liquidity) returns Ok
\* with the amounts consumed so far instead of failing.  The calls are those
\* that reach the loop: the checks before it pass and the fee update does
\* not fail.
C31_NoProgressExit ==
    \A c \in SwapCalls :
        LET gate == validate_swap_mev_protection(pool, c.zero_for_one,
                        c.sqrt_price_limit, oracle_observations, pool.mev_config)
            step == swap_step(pool, c.amount_in, c.zero_for_one)
            loop == SwapLoop(pool, c.amount_in, 0, 0, c.zero_for_one,
                             c.sqrt_price_limit)
            out == SwapCall(c)
        IN  /\ ReachesGate(c) /\ IsOk(gate) /\ gate.v
            /\ c.current_timestamp >= pool.last_fee_adjustment
            => /\ loop.amount_in <= c.amount_in
               /\ c.amount_in > 0 /\ step.err = "Ok" /\ step.amount_in = 0
                  => /\ out.err = "Ok"
                     /\ out.amount_in = 0
                     /\ out.amount_out = 0

\* ------------------------------------------------------------------------
\* The order of account writes and token transfers inside one instruction
\* ------------------------------------------------------------------------
\* a transfer is issued only for a positive amount
TransferIf(amount) == IF amount > 0 THEN << "transfer" >> ELSE << >>

\* add_liquidity::process from the tick updates on: update_tick writes each
\* tick account, the tokens are pulled, the position and the pool are saved
add_liquidity_effects(amount_0, amount_1) ==
    << "tick", "tick" >> \o TransferIf(amount_0) \o TransferIf(amount_1)
        \o << "position", "pool" >>

\* remove_liquidity::process from the tick updates on
remove_liquidity_effects(total_amount_0, total_amount_1) ==
    << "tick", "tick" >> \o TransferIf(total_amount_0)
        \o TransferIf(total_amount_1) \o << "position", "pool" >>

\* collect_fees::process: the fees are paid, then both accounts are saved
collect_fees_effects(collected_0, collected_1) ==
    TransferIf(collected_0) \o TransferIf(collected_1) \o << "position", "pool" >>

\* swap::process: the pool is serialized, then transfer_tokens moves the
\* input and the output whatever their amounts
swap_effects == << "pool", "transfer", "transfer" >>

\* C32: in every operation (add_liquidity, remove_liquidity, collect_fees,
\* swap) each token transfer is issued before any pool, tick or position
\* account is written or after all of them have been written: no transfer
\* lies between two account writes of the same operation.
C32_TransferOrdering ==
    LET Between(effects) ==
            \E i, j, k \in DOMAIN effects :
                /\ i < j /\ j < k
                /\ effects[i] # "transfer"
                /\ effects[j] = "transfer"
                /\ effects[k] # "transfer"
    IN  /\ \A c \in LiquidityCalls :
            /\ AddCall(c).err = "Ok" =>
                 ~Between(add_liquidity_effects(AddCall(c).vaults.a - vaults.a,
                                                AddCall(c).vaults.b - vaults.b))
            /\ RemoveCall(c).err = "Ok" =>
                 ~Between(remove_liquidity_effects(
                              vaults.a - RemoveCall(c).vaults.a,
                              vaults.b - RemoveCall(c).vaults.b))
        /\ \A r \in Ranges, requested \in AmountLimits :
            LET out == collect_fees(pool, positions[r], ticks[r[1]], ticks[r[2]],
                                    vaults, Owner, requested[1], requested[2])
            IN  out.err = "Ok" =>
                  ~Between(collect_fees_effects(vaults.a - out.vaults.a,
                                                vaults.b - out.vaults.b))
        /\ \A c \in SwapInstructions :
            SwapInstruction(c).err = "Ok" => ~Between(swap_effects)

\* C33: after every fee adjustment the pool's fee satisfies min_fee <= fee
\* <= max_fee and equals clamp(previous fee + the volatility, volume and
\* impact adjustments, min_fee, max_fee), for any min_fee and max_fee the
\* pool is configured with; with dynamic_fee_enabled = false the fee is left
\* as it was.  The adjustment is the one update_dynamic_fees makes for a
\* swap call on the current pool and histories.
C33_DynamicFeeBounds ==
    \A c \in SwapCalls, bounds \in {<< POOL_MIN_FEE, POOL_MAX_FEE >>, << 5, 50 >>},
       enabled \in BOOLEAN :
        LET p == [pool EXCEPT !.min_fee = bounds[1], !.max_fee = bounds[2],
                              !.dynamic_fee_enabled = enabled]
            impact == calculate_price_impact(p, c.amount_in, c.zero_for_one)
            fees == update_dynamic_fees(p, price_history, volume_history,
                        impact_history, c.current_timestamp, p.sqrt_price_x96,
                        c.amount_in, impact.v, c.overflow_checks)
            volatility == VolatilityClass(fees.price_history)
            avg_volume == calculate_average_volume(fees.volume_history)
            avg_impact == calculate_average_price_impact(fees.impact_history)
            adjustments ==
                (IF volatility = "HIGH" THEN 20
                 ELSE IF volatility = "LOW" THEN -10 ELSE 0)
              + (IF avg_volume > HIGH_VOLUME THEN -15
                 ELSE IF avg_volume < LOW_VOLUME THEN 10 ELSE 0)
              + (IF avg_impact > 500 THEN 25
                 ELSE IF avg_impact < 100 THEN -10 ELSE 0)
        IN  IsOk(impact) /\ fees.err = "Ok" =>
              /\ fees.fee_adjusted =>
                   /\ p.min_fee <= fees.pool.fee
                   /\ fees.pool.fee <= p.max_fee
                   /\ fees.pool.fee =
                        Min(Max(p.fee + adjustments, p.min_fee), p.max_fee)
              /\ ~enabled => fees.pool.fee = p.fee /\ ~fees.fee_adjusted

\* C34: the pool's fee is adjusted at most once per fee_adjustment_interval:
\* a swap whose current_timestamp is below last_fee_adjustment +
\* fee_adjustment_interval, a timestamp below last_fee_adjustment included,
\* performs no adjustment (the fee, last_fee_adjustment and the three
\* histories stay as they were), and after an adjustment last_fee_adjustment
\* is the timestamp of the swap that made it.
C34_FeeRateLimit ==
    \A c \in SwapCalls :
        LET out == SwapCall(c)
            adjusted ==
                \/ out.pool.last_fee_adjustment # pool.last_fee_adjustment
                \/ out.pool.fee # pool.fee
                \/ out.price_history # price_history
                \/ out.volume_history # volume_history
                \/ out.impact_history # impact_history
        IN  /\ c.current_timestamp
                 < pool.last_fee_adjustment + pool.fee_adjustment_interval
               => ~adjusted
            /\ adjusted => out.pool.last_fee_adjustment = c.current_timestamp

\* C35: the entries one process_batch_auction call returns are ordered by
\* timestamp and then by sequence_number (timestamps never decrease, equal
\* timestamps come with increasing sequence numbers), whatever order the
\* entries were enqueued in.
C35_BatchOrdering ==
    LET config == [default_config EXCEPT !.batch_auction_enabled = args[3]]
        executed == process_batch_auction(args[1], args[2], config).executed
    IN  \A i, j \in DOMAIN executed :
            i < j =>
                \/ executed[i].timestamp < executed[j].timestamp
                \/ /\ executed[i].timestamp = executed[j].timestamp
                   /\ executed[i].sequence_number < executed[j].sequence_number

\* ------------------------------------------------------------------------
\* src/state/tick.rs: TickBitmap
\* ------------------------------------------------------------------------
\* the modulus of the u8 bit position; an i32 ends at I32_MAX
U8_MOD == 8

\* is_bit_set: the bitmap is the set of the bit positions that are set, and
\* every u8 position lies inside its 256 bytes
is_bit_set(bitmap, bit_position) == bit_position \in bitmap

\* TickBitmap::next_initialized_tick.  Some(t) is Ok(t) and None is
\* Err("None").  The loop tests `compressed as u8`, the low bits of
\* compressed, and steps down to 0 or up to the end of the i32, so it stops
\* at the nearest compressed value whose low bits are a set position.  The
\* division by a zero spacing panics; an i32 sum or product that leaves the
\* word panics when the build checks overflow and wraps otherwise, and the
\* wrapped counter is negative, which ends the loop.
next_initialized_tick(bitmap, tick, tick_spacing, lte, overflow_checks) ==
    LET I32_MOD == 2 * I32_MAX + 2
        Wrapped(x) == ((x + I32_MAX + 1) % I32_MOD) - (I32_MAX + 1)
        start == TruncDiv(tick, tick_spacing)
        compressed == IF ~lte /\ tick - start * tick_spacing # 0
                      THEN start + 1 ELSE start
        hits == IF lte
                THEN {c \in 0..compressed : is_bit_set(bitmap, c % U8_MOD)}
                ELSE {c \in compressed..I32_MAX : is_bit_set(bitmap, c % U8_MOD)}
        found == IF lte THEN CHOOSE c \in hits : \A d \in hits : d <= c
                 ELSE CHOOSE c \in hits : \A d \in hits : c <= d
    IN  IF tick_spacing = 0 THEN Err("Panic")
        ELSE IF compressed < 0 THEN Err("None")
        ELSE IF hits = {}
        THEN IF lte THEN Err("None")
             ELSE IF overflow_checks THEN Err("Panic") ELSE Err("None")
        ELSE IF found * tick_spacing > I32_MAX /\ overflow_checks
        THEN Err("Panic")
        ELSE Ok(Wrapped(found * tick_spacing))

\* bitmaps with up to three bits set, ticks on both sides of zero, on and
\* off the spacing grid, the spacing and the direction
BitmapArgs ==
    (SUBSET {0, 2, 5}) \X {-5, -4, 0, 3, 4, 20} \X {0, 1, 2} \X BOOLEAN

\* one call of next_initialized_tick on the drawn arguments; result keeps
\* whether it returned Some or None
NextInitializedTick ==
    /\ result = "None"
    /\ \E overflow_checks \in BOOLEAN :
          LET out == next_initialized_tick(args[1], args[2], args[3], args[4],
                                           overflow_checks)
          IN  result' = IF IsOk(out) THEN "Some" ELSE "Searched" \o out.err
    /\ UNCHANGED << args, pool, positions, ticks, vaults, oracle_observations,
                    price_history, volume_history, impact_history >>

SpecBitmap == InitArgs(BitmapArgs) /\ [][NextInitializedTick]_vars

\* C36: next_initialized_tick(tick, spacing, lte) returns for every input
\* with a positive spacing; when it returns Some(t), t is a multiple of the
\* spacing whose bit is set, t <= tick if lte and t >= tick otherwise, and
\* no set bit lies strictly between tick and t; when a set bit exists in the
\* requested direction, negative ticks included, it returns Some, and when
\* none exists it returns None.  The bit of a tick is the one is_bit_set
\* reads for it: the low bits of tick / spacing.
C36_NextInitializedTick ==
    \A overflow_checks \in BOOLEAN :
        LET bitmap == args[1]
            tick == args[2]
            spacing == args[3]
            lte == args[4]
            out == next_initialized_tick(bitmap, tick, spacing, lte,
                                         overflow_checks)
            set == {c \in 0..I32_MAX : is_bit_set(bitmap, c % U8_MOD)}
            ahead(c) == IF lte THEN c * spacing <= tick ELSE c * spacing >= tick
            between(c, t) == IF lte THEN t < c * spacing /\ c * spacing < tick
                             ELSE tick < c * spacing /\ c * spacing < t
        IN  spacing > 0 =>
              /\ out.err \in {"Ok", "None"}
              /\ IsOk(out) =>
                   /\ out.v % spacing = 0
                   /\ out.v \div spacing \in set
                   /\ IF lte THEN out.v <= tick ELSE out.v >= tick
                   /\ \A c \in set : ~between(c, out.v)
              /\ (\E c \in set : ahead(c)) <=> IsOk(out)

\* C37: in every swap step, and hence for the whole swap, amount_out is at
\* most the output-token amount between the price before and the price
\* reached, at the active liquidity (L * |dP| / Q96 of token1 for
\* zero_for_one, L * Q96 * |dP| / (P * P') of token0 otherwise); a step that
\* consumes only part of the input needed to reach the next tick does not
\* pay out the full tick-to-tick output.
C37_OutputBacked ==
    \A c \in SwapCalls :
        LET Backed(before, after, amount_out) ==
                LET lo == Min(before.sqrt_price_x96, after.sqrt_price_x96)
                    hi == Max(before.sqrt_price_x96, after.sqrt_price_x96)
                IN  IF c.zero_for_one
                    THEN amount_out * Q96 <= before.liquidity * (hi - lo)
                    ELSE amount_out * lo * hi <= before.liquidity * Q96 * (hi - lo)
            step == swap_step(pool, c.amount_in, c.zero_for_one)
            next == find_next_tick(pool, c.zero_for_one)
            max_amount_in_step ==
                calculate_max_amount_in_step(pool.sqrt_price_x96,
                    next.v.sqrt_price, pool.liquidity, c.zero_for_one)
            full == IF c.zero_for_one
                    THEN get_amount1_delta(pool.sqrt_price_x96, next.v.sqrt_price,
                                           pool.liquidity, FALSE)
                    ELSE get_amount0_delta(pool.sqrt_price_x96, next.v.sqrt_price,
                                           pool.liquidity, FALSE)
            out == SwapCall(c)
        IN  /\ step.err = "Ok" =>
                /\ Backed(pool, step.pool, step.amount_out)
                /\ 0 < step.amount_in /\ step.amount_in < max_amount_in_step.v
                      /\ full.v > 0
                   => step.amount_out < full.v
            /\ out.err = "Ok" => Backed(pool, out.pool, out.amount_out)

\* C38: for a stored pool that is unlocked, has positive in-range liquidity
\* and last_sequence_number = 0 there are arguments (amount_in > 0, a price
\* limit, minimum_amount_out = 0) for which the Swap instruction returns Ok
\* and writes the updated pool.
C38_SwapCanSucceed ==
    /\ pool # Uninitialized
    /\ pool.unlocked
    /\ pool.liquidity > 0
    /\ pool.last_sequence_number = 0
    => \E c \in SwapInstructions :
          /\ c.amount_in > 0
          /\ c.minimum_amount_out = 0
          /\ SwapInstruction(c).err = "Ok"
          /\ SwapInstruction(c).pool.last_sequence_number = 1

\* ------------------------------------------------------------------------
\* src/math/mev_protection.rs: the enhanced batch
\* ------------------------------------------------------------------------
MaxBatch == 3

create_batch_state(gas_budget) ==
    [operations |-> << >>, total_operations |-> 0, batch_start_time |-> 0,
     last_execution_time |-> 0, gas_budget |-> gas_budget, gas_used |-> 0,
     successful_operations |-> 0, failed_operations |-> 0]

\* add_to_batch: the first operation of an empty queue starts the batch
add_to_batch(batch_state, operation, current_time) ==
    LET started == IF batch_state.operations = << >>
                   THEN [batch_state EXCEPT !.batch_start_time = current_time,
                                            !.last_execution_time = current_time]
                   ELSE batch_state
    IN  [started EXCEPT !.operations = Append(@, operation),
                        !.total_operations = @ + 1]

\* a faulty batch that counts an executed operation as failed as well
process_enhanced_batch_miscounted(batch_state, current_time, config) ==
    IF Max(current_time - batch_state.batch_start_time, 0) < config.batch_window
       \/ batch_state.gas_used >= batch_state.gas_budget
    THEN [executed |-> << >>, batch_state |-> batch_state]
    ELSE [executed |-> batch_state.operations,
          batch_state |->
            [batch_state EXCEPT
                !.operations = << >>,
                !.successful_operations = @ + Len(batch_state.operations),
                !.failed_operations = @ + Len(batch_state.operations),
                !.last_execution_time = current_time]]

\* process_enhanced_batch: what it returns and the batch state it leaves.
\* The loop pops the front operation while the gas budget is not used up
process_enhanced_batch(batch_state, current_time, config) ==
    LET RECURSIVE Drain(_, _)
        Drain(state, executed_operations) ==
            IF state.operations = << >> \/ state.gas_used >= state.gas_budget
            THEN [executed |-> executed_operations,
                  batch_state |-> [state EXCEPT !.last_execution_time = current_time]]
            ELSE Drain([state EXCEPT !.operations = Tail(@),
                                     !.successful_operations = @ + 1],
                       Append(executed_operations, Head(state.operations)))
    IN  IF Max(current_time - batch_state.batch_start_time, 0) < config.batch_window
        THEN [executed |-> << >>, batch_state |-> batch_state]
        ELSE IF batch_state.gas_used >= batch_state.gas_budget
        THEN [executed |-> << >>, batch_state |-> batch_state]
        ELSE Drain(batch_state, << >>)

\* one add_to_batch by the host, of one of the three kinds of operation
AddToBatch ==
    /\ args.total_operations < MaxBatch
    /\ \E operation \in {"Swap", "AddLiquidity", "RemoveLiquidity"},
          current_time \in {0, 20, 50} :
          args' = add_to_batch(args, operation, current_time)
    /\ result' = "Ok"
    /\ UNCHANGED << pool, positions, ticks, vaults, oracle_observations,
                    price_history, volume_history, impact_history >>

\* one process_enhanced_batch by the host under the default configuration
ProcessEnhancedBatch ==
    /\ \E current_time \in {10, 40, 100} :
          args' = process_enhanced_batch(args, current_time, default_config).batch_state
    /\ result' = "Ok"
    /\ UNCHANGED << pool, positions, ticks, vaults, oracle_observations,
                    price_history, volume_history, impact_history >>

SpecEnhanced ==
    InitArgs({create_batch_state(gas_budget) : gas_budget \in {0, 1, 15}})
        /\ [][AddToBatch \/ ProcessEnhancedBatch]_vars

\* C39 as stated: for a BatchState made by create_batch_state and changed
\* only by add_to_batch and process_enhanced_batch, total_operations =
\* successful_operations + failed_operations + the number of queued
\* operations in every reachable state; process_enhanced_batch executes
\* nothing and changes nothing before batch_window has elapsed since
\* batch_start_time, and otherwise returns the queued operations in the
\* order they were added.
C39_BatchAccounting ==
    /\ args.total_operations = args.successful_operations
            + args.failed_operations + Len(args.operations)
    /\ \A current_time \in {10, 40, 100} :
          LET out == process_enhanced_batch(args, current_time, default_config)
          IN  IF current_time - args.batch_start_time < default_config.batch_window
              THEN out.executed = << >> /\ out.batch_state = args
              ELSE out.executed = args.operations

\* C39 amended: the accounting identity holds in every reachable state;
\* process_enhanced_batch executes nothing and changes nothing before
\* batch_window has elapsed since batch_start_time or when gas_used has
\* reached gas_budget (a budget of 0 included), and otherwise returns the
\* queued operations in the order they were added and leaves the queue
\* empty.
C39_BatchAccountingWithinBudget ==
    /\ args.total_operations = args.successful_operations
            + args.failed_operations + Len(args.operations)
    /\ \A current_time \in {10, 40, 100} :
          LET out == process_enhanced_batch(args, current_time, default_config)
          IN  IF current_time - args.batch_start_time < default_config.batch_window
                 \/ args.gas_used >= args.gas_budget
              THEN out.executed = << >> /\ out.batch_state = args
              ELSE /\ out.executed = args.operations
                   /\ out.batch_state.operations = << >>

\* operations of two kinds are queued, the window has elapsed and a batch
\* has already been executed
C39_Witness ==
    /\ Len(args.operations) >= 2
    /\ args.operations[1] # args.operations[2]
    /\ args.successful_operations >= 1
    /\ args.gas_budget > 0
    /\ 100 - args.batch_start_time >= default_config.batch_window

\* C40: whenever calculate_twap(observations, window) returns Ok(p), p lies
\* between the lowest and the highest price of the observations whose
\* timestamp is >= back.timestamp - window, and it returns an error whenever
\* fewer than 2 observations fall within that window.  The observations are
\* the host's queue, as kept and back to front, for several windows.
C40_TwapBounded ==
    LET reversed == [i \in DOMAIN oracle_observations |->
                        oracle_observations[Len(oracle_observations) + 1 - i]]
    IN  \A observations \in {oracle_observations, reversed},
           window \in {0, 100, 300, 4000} :
            LET out == calculate_twap(observations, window)
                back == observations[Len(observations)]
                within == {i \in DOMAIN observations :
                             observations[i].timestamp >= back.timestamp - window}
            IN  /\ IsOk(out) =>
                     /\ \E i \in within : observations[i].price <= out.v
                     /\ \E i \in within : out.v <= observations[i].price
                /\ Cardinality(within) < 2 => ~IsOk(out)

\* the queue holds observations of different prices inside a window of
\* 4000 seconds, and their TWAP lies strictly between two of the prices
C40_Witness ==
    /\ Len(oracle_observations) >= 2
    /\ LET out == calculate_twap(oracle_observations, 4000)
       IN  /\ IsOk(out)
           /\ \E i, j \in DOMAIN oracle_observations :
                 /\ oracle_observations[i].price < out.v
                 /\ out.v < oracle_observations[j].price

====
